---- MODULE Spec2Model ----
(***************************************************************************)
(* A model of the sports backend: the four tables (teams, players, games,  *)
(* player_stats), their repositories and the service layer that validates  *)
(* requests and orchestrates the repository calls.                         *)
(*                                                                         *)
(* Representation:                                                         *)
(*   - a Go string is a sequence of one-character strings, so that         *)
(*     strings.TrimSpace and strings.EqualFold are computed, not assumed;  *)
(*   - a nil-able Go value (a pointer to int, string or time.Time) is     *)
(*     <<>> for nil and <<v>> for a pointer to v;                          *)
(*   - an error is a record: the innermost message, its %d arguments and   *)
(*     the prefixes added by fmt.Errorf("...: %w", err), outermost first;  *)
(*   - a table is the set of its rows, AUTOINCREMENT ids come from nextId. *)
(***************************************************************************)
EXTENDS Integers, Sequences, FiniteSets

VARIABLES teams, players, games, stats, nextId, now, last, probe, scope, inflight

vars == <<teams, players, games, stats, nextId, now, last, probe, scope, inflight>>

store == <<teams, players, games, stats>>

----------------------------------------------------------------------------
(* Bounds of the exploration.                                              *)

MaxTeams == 2

MaxPlayers == 2

MaxGames == 1

MaxStats == 1

MaxClock == 1

----------------------------------------------------------------------------
(* Optional values and errors.                                             *)

Nil == <<>>

Some(v) == <<v>>

IsNil(o) == o = <<>>

NotNil(o) == o # <<>>

Deref(o) == o[1]

NoErr == [msg |-> "", args |-> <<>>, wrap |-> <<>>]

Errorf(m, a) == [msg |-> m, args |-> a, wrap |-> <<>>]

Wrap(prefix, e) == [e EXCEPT !.wrap = <<prefix>> \o @]

IsErr(e) == e # NoErr

----------------------------------------------------------------------------
(* Strings.                                                                *)

UpperCase == <<"A","B","C","D","E","F","G","H","I","J","K","L","M",
               "N","O","P","Q","R","S","T","U","V","W","X","Y","Z">>

LowerCase == <<"a","b","c","d","e","f","g","h","i","j","k","l","m",
               "n","o","p","q","r","s","t","u","v","w","x","y","z">>

WhiteSpace == {" ", "\t", "\n", "\r"}

ToLower(c) ==
    IF \E i \in 1..Len(UpperCase) : UpperCase[i] = c
    THEN LowerCase[CHOOSE i \in 1..Len(UpperCase) : UpperCase[i] = c]
    ELSE c

EqualFold(s, t) ==
    /\ Len(s) = Len(t)
    /\ \A i \in 1..Len(s) : ToLower(s[i]) = ToLower(t[i])

RECURSIVE TrimLeft(_)
TrimLeft(s) ==
    IF s # <<>> /\ Head(s) \in WhiteSpace THEN TrimLeft(Tail(s)) ELSE s

RECURSIVE TrimRight(_)
TrimRight(s) ==
    IF s # <<>> /\ s[Len(s)] \in WhiteSpace
    THEN TrimRight(SubSeq(s, 1, Len(s) - 1))
    ELSE s

TrimSpace(s) == TrimRight(TrimLeft(s))

----------------------------------------------------------------------------
(* The record of the last service call: the operation, the id and request  *)
(* it was given, the error it returned and the entity it returned.         *)

NoCall == [op |-> "none", id |-> 0, req |-> Nil, err |-> NoErr, ret |-> Nil]

Returned(o, i, r, e, v) == [op |-> o, id |-> i, req |-> r, err |-> e, ret |-> v]

Reject(o, i, r, e) ==
    /\ last' = Returned(o, i, r, e, Nil)
    /\ UNCHANGED <<teams, players, games, stats, nextId, now, probe, scope, inflight>>

----------------------------------------------------------------------------
(* Teams: repository.  The connection is opened without the foreign_keys   *)
(* pragma, so SQLite does not enforce the REFERENCES clauses of the        *)
(* schema: a row may be deleted while other rows still refer to it.  The   *)
(* UNIQUE clauses are enforced.  AUTOINCREMENT never reuses an id.         *)

teamRepoExistsAny(id) == teams # {}

teamRepoExists(id) == \E t \in teams : t.id = id

teamRepoGetByID(id) ==
    IF \E t \in teams : t.id = id
    THEN [err |-> NoErr, val |-> Some(CHOOSE t \in teams : t.id = id)]
    ELSE [err |-> Errorf("team with ID %d not found", <<id>>), val |-> Nil]

teamUnique(row) ==
    \A t \in teams : t.id # row.id => ~(t.name = row.name /\ t.city = row.city)

teamRepoCreate(team) ==
    LET row == [team EXCEPT !.id = nextId.team,
                            !.created_at = now, !.updated_at = now]
    IN  IF ~teamUnique(row)
        THEN [err |-> Wrap("failed to create team: ",
                           Errorf("UNIQUE constraint failed: teams.name, teams.city", <<>>)),
              val |-> Nil]
        ELSE [err |-> NoErr, val |-> Some(row)]

teamRepoUpdateRestamped(team) ==
    IF ~teamRepoExists(team.id)
    THEN [err |-> Errorf("team with ID %d not found", <<team.id>>),
          val |-> Nil, ret |-> Nil]
    ELSE LET row == [team EXCEPT !.created_at = now, !.updated_at = now]
         IN  IF ~teamUnique(row)
             THEN [err |-> Wrap("failed to update team: ",
                        Errorf("UNIQUE constraint failed: teams.name, teams.city", <<>>)),
                   val |-> Nil, ret |-> Nil]
             ELSE [err |-> NoErr, val |-> Some(row),
                   ret |-> Some([team EXCEPT !.updated_at = now])]

teamRepoUpdate(team) ==
    IF ~teamRepoExists(team.id)
    THEN [err |-> Errorf("team with ID %d not found", <<team.id>>),
          val |-> Nil, ret |-> Nil]
    ELSE LET cur == CHOOSE t \in teams : t.id = team.id
             row == [team EXCEPT !.created_at = cur.created_at, !.updated_at = now]
         IN  IF ~teamUnique(row)
             THEN [err |-> Wrap("failed to update team: ",
                        Errorf("UNIQUE constraint failed: teams.name, teams.city", <<>>)),
                   val |-> Nil, ret |-> Nil]
             ELSE [err |-> NoErr, val |-> Some(row),
                   ret |-> Some([team EXCEPT !.updated_at = now])]

teamRepoDelete(id) ==
    IF ~teamRepoExists(id)
    THEN Errorf("team with ID %d not found", <<id>>)
    ELSE NoErr

----------------------------------------------------------------------------
(* Teams: service.                                                         *)

validConferences == { <<"A","F","C">>, <<"N","F","C">> }

validDivisions == { <<"N","o","r","t","h">>, <<"S","o","u","t","h">>,
                    <<"E","a","s","t">>, <<"W","e","s","t">> }

validateCreateTeamRequest(req) ==
    IF TrimSpace(req.name) = <<>> THEN Errorf("team name is required", <<>>)
    ELSE IF TrimSpace(req.city) = <<>> THEN Errorf("city is required", <<>>)
    ELSE IF TrimSpace(req.conference) = <<>> THEN Errorf("conference is required", <<>>)
    ELSE IF TrimSpace(req.division) = <<>> THEN Errorf("division is required", <<>>)
    ELSE IF ~\E c \in validConferences : EqualFold(req.conference, c)
    THEN Errorf("conference must be one of: [AFC NFC]", <<>>)
    ELSE IF ~\E d \in validDivisions : EqualFold(req.division, d)
    THEN Errorf("division must be one of: [North South East West]", <<>>)
    ELSE NoErr

validateUpdateTeamRequest(req) ==
    IF IsNil(req.name) /\ IsNil(req.city) /\ IsNil(req.conference) /\ IsNil(req.division)
    THEN Errorf("at least one field must be provided for update", <<>>)
    ELSE IF NotNil(req.name) /\ TrimSpace(Deref(req.name)) = <<>>
    THEN Errorf("team name cannot be empty", <<>>)
    ELSE IF NotNil(req.city) /\ TrimSpace(Deref(req.city)) = <<>>
    THEN Errorf("city cannot be empty", <<>>)
    ELSE IF NotNil(req.conference) /\ TrimSpace(Deref(req.conference)) = <<>>
    THEN Errorf("conference cannot be empty", <<>>)
    ELSE IF NotNil(req.division) /\ TrimSpace(Deref(req.division)) = <<>>
    THEN Errorf("division cannot be empty", <<>>)
    ELSE IF NotNil(req.conference)
            /\ ~\E c \in validConferences : EqualFold(Deref(req.conference), c)
    THEN Errorf("conference must be one of: [AFC NFC]", <<>>)
    ELSE IF NotNil(req.division)
            /\ ~\E d \in validDivisions : EqualFold(Deref(req.division), d)
    THEN Errorf("division must be one of: [North South East West]", <<>>)
    ELSE NoErr

GetTeam(id) ==
    IF id <= 0
    THEN [err |-> Errorf("invalid team ID: %d", <<id>>), val |-> Nil]
    ELSE LET r == teamRepoGetByID(id)
         IN  IF IsErr(r.err)
             THEN [err |-> Wrap("failed to get team: ", r.err), val |-> Nil]
             ELSE r

CreateTeam(req) ==
    LET verr == validateCreateTeamRequest(req)
        team == [id |-> 0,
                 name |-> TrimSpace(req.name), city |-> TrimSpace(req.city),
                 conference |-> TrimSpace(req.conference),
                 division |-> TrimSpace(req.division),
                 created_at |-> 0, updated_at |-> 0]
        r    == teamRepoCreate(team)
    IN  IF IsErr(verr)
        THEN Reject("CreateTeam", 0, req, Wrap("validation failed: ", verr))
        ELSE IF IsErr(r.err)
        THEN Reject("CreateTeam", 0, req, Wrap("failed to create team: ", r.err))
        ELSE /\ nextId.team <= MaxTeams
             /\ teams' = teams \cup {Deref(r.val)}
             /\ nextId' = [nextId EXCEPT !.team = @ + 1]
             /\ last' = Returned("CreateTeam", 0, req, NoErr, r.val)
             /\ UNCHANGED <<players, games, stats, now, probe, scope, inflight>>

UpdateTeam(id, req) ==
    LET verr == validateUpdateTeamRequest(req)
        g    == teamRepoGetByID(id)
        old  == Deref(g.val)
        team == [old EXCEPT
                   !.name = IF NotNil(req.name) THEN TrimSpace(Deref(req.name)) ELSE @,
                   !.city = IF NotNil(req.city) THEN TrimSpace(Deref(req.city)) ELSE @,
                   !.conference = IF NotNil(req.conference)
                                  THEN TrimSpace(Deref(req.conference)) ELSE @,
                   !.division = IF NotNil(req.division)
                                THEN TrimSpace(Deref(req.division)) ELSE @]
        r    == teamRepoUpdate(team)
    IN  IF id <= 0
        THEN Reject("UpdateTeam", id, req, Errorf("invalid team ID: %d", <<id>>))
        ELSE IF IsErr(verr)
        THEN Reject("UpdateTeam", id, req, Wrap("validation failed: ", verr))
        ELSE IF IsErr(g.err)
        THEN Reject("UpdateTeam", id, req, Wrap("failed to get team: ", g.err))
        ELSE IF IsErr(r.err)
        THEN Reject("UpdateTeam", id, req, Wrap("failed to update team: ", r.err))
        ELSE /\ teams' = {t \in teams : t.id # id} \cup {Deref(r.val)}
             /\ last' = Returned("UpdateTeam", id, req, NoErr, r.ret)
             /\ UNCHANGED <<players, games, stats, nextId, now, probe, scope, inflight>>

DeleteTeam(id) ==
    LET derr == teamRepoDelete(id)
    IN  IF id <= 0
        THEN Reject("DeleteTeam", id, Nil, Errorf("invalid team ID: %d", <<id>>))
        ELSE IF ~teamRepoExists(id)
        THEN Reject("DeleteTeam", id, Nil, Errorf("team with ID %d not found", <<id>>))
        ELSE IF IsErr(derr)
        THEN Reject("DeleteTeam", id, Nil, Wrap("failed to delete team: ", derr))
        ELSE /\ teams' = {t \in teams : t.id # id}
             /\ last' = Returned("DeleteTeam", id, Nil, NoErr, Nil)
             /\ UNCHANGED <<players, games, stats, nextId, now, probe, scope, inflight>>

----------------------------------------------------------------------------
(* Players: repository.  GetByID and GetByTeamID read players JOIN teams,  *)
(* so they return only players whose team row is present; Exists reads the *)
(* players table alone.                                                    *)

playerRepoExistsAny(id) == players # {}

playerRepoExists(id) == \E p \in players : p.id = id

playerRepoGetByID(id) ==
    IF \E p \in players : p.id = id /\ teamRepoExists(p.team_id)
    THEN [err |-> NoErr, val |-> Some(CHOOSE p \in players : p.id = id)]
    ELSE [err |-> Errorf("player with ID %d not found", <<id>>), val |-> Nil]

playerRepoGetByTeamID(teamID) ==
    {p \in players : p.team_id = teamID /\ teamRepoExists(p.team_id)}

playerUniqueJersey(row) ==
    \A p \in players :
        p.id # row.id =>
            ~(/\ p.team_id = row.team_id
              /\ NotNil(p.jersey_number)
              /\ p.jersey_number = row.jersey_number)

playerUnique(row) ==
    \A p \in players :
        p.id # row.id =>
            ~(/\ p.team_id = row.team_id
              /\ p.first_name = row.first_name
              /\ p.last_name = row.last_name
              /\ p.position = row.position
              /\ NotNil(p.jersey_number)
              /\ p.jersey_number = row.jersey_number)

playerRepoCreate(player) ==
    LET row == [player EXCEPT !.id = nextId.player,
                              !.created_at = now, !.updated_at = now]
    IN  IF ~playerUnique(row)
        THEN [err |-> Wrap("failed to create player: ",
                           Errorf("UNIQUE constraint failed: players", <<>>)),
              val |-> Nil]
        ELSE [err |-> NoErr, val |-> Some(row)]

playerRepoUpdate(player) ==
    IF ~playerRepoExists(player.id)
    THEN [err |-> Errorf("player with ID %d not found", <<player.id>>),
          val |-> Nil, ret |-> Nil]
    ELSE LET cur == CHOOSE p \in players : p.id = player.id
             row == [player EXCEPT !.created_at = cur.created_at, !.updated_at = now]
         IN  IF ~playerUnique(row)
             THEN [err |-> Wrap("failed to update player: ",
                                Errorf("UNIQUE constraint failed: players", <<>>)),
                   val |-> Nil, ret |-> Nil]
             ELSE [err |-> NoErr, val |-> Some(row),
                   ret |-> Some([player EXCEPT !.updated_at = now])]

playerRepoDeleteAnyRows(id) == NoErr

playerRepoDelete(id) ==
    IF ~playerRepoExists(id)
    THEN Errorf("player with ID %d not found", <<id>>)
    ELSE NoErr

----------------------------------------------------------------------------
(* Players: service.                                                       *)

MinJersey == 0

MaxJerseyInclusive == 99 + 1

MaxJersey == 99

MinHeight == 60

MaxHeight == 90

MinWeight == 150

MaxWeight == 400

validateCreatePlayerRequest(req) ==
    IF req.team_id <= 0 THEN Errorf("team ID is required and must be positive", <<>>)
    ELSE IF TrimSpace(req.first_name) = <<>> THEN Errorf("first name is required", <<>>)
    ELSE IF TrimSpace(req.last_name) = <<>> THEN Errorf("last name is required", <<>>)
    ELSE IF TrimSpace(req.position) = <<>> THEN Errorf("position is required", <<>>)
    ELSE IF NotNil(req.jersey_number)
            /\ (Deref(req.jersey_number) < MinJersey \/ Deref(req.jersey_number) > MaxJersey)
    THEN Errorf("jersey number must be between 0 and 99", <<>>)
    ELSE IF NotNil(req.height)
            /\ (Deref(req.height) < MinHeight \/ Deref(req.height) > MaxHeight)
    THEN Errorf("height must be between 60 and 90 inches", <<>>)
    ELSE IF NotNil(req.weight)
            /\ (Deref(req.weight) < MinWeight \/ Deref(req.weight) > MaxWeight)
    THEN Errorf("weight must be between 150 and 400 pounds", <<>>)
    ELSE NoErr

validateUpdatePlayerRequest(req) ==
    IF /\ IsNil(req.first_name) /\ IsNil(req.last_name) /\ IsNil(req.position)
       /\ IsNil(req.jersey_number) /\ IsNil(req.height) /\ IsNil(req.weight)
    THEN Errorf("at least one field must be provided for update", <<>>)
    ELSE IF NotNil(req.first_name) /\ TrimSpace(Deref(req.first_name)) = <<>>
    THEN Errorf("first name cannot be empty", <<>>)
    ELSE IF NotNil(req.last_name) /\ TrimSpace(Deref(req.last_name)) = <<>>
    THEN Errorf("last name cannot be empty", <<>>)
    ELSE IF NotNil(req.position) /\ TrimSpace(Deref(req.position)) = <<>>
    THEN Errorf("position cannot be empty", <<>>)
    ELSE IF NotNil(req.jersey_number)
            /\ (Deref(req.jersey_number) < MinJersey \/ Deref(req.jersey_number) > MaxJersey)
    THEN Errorf("jersey number must be between 0 and 99", <<>>)
    ELSE IF NotNil(req.height)
            /\ (Deref(req.height) < MinHeight \/ Deref(req.height) > MaxHeight)
    THEN Errorf("height must be between 60 and 90 inches", <<>>)
    ELSE IF NotNil(req.weight)
            /\ (Deref(req.weight) < MinWeight \/ Deref(req.weight) > MaxWeight)
    THEN Errorf("weight must be between 150 and 400 pounds", <<>>)
    ELSE NoErr

GetPlayer(id) ==
    IF id <= 0
    THEN [err |-> Errorf("invalid player ID: %d", <<id>>), val |-> Nil]
    ELSE LET r == playerRepoGetByID(id)
         IN  IF IsErr(r.err)
             THEN [err |-> Wrap("failed to get player: ", r.err), val |-> Nil]
             ELSE r

jerseyTakenOnCreate(req) ==
    \E player \in playerRepoGetByTeamID(req.team_id) :
        NotNil(player.jersey_number)
        /\ Deref(player.jersey_number) = Deref(req.jersey_number)

jerseyTakenOnUpdateSelfIncluded(id, teamID, req) ==
    \E existingPlayer \in playerRepoGetByTeamID(teamID) :
        /\ NotNil(existingPlayer.jersey_number)
        /\ Deref(existingPlayer.jersey_number) = Deref(req.jersey_number)

jerseyTakenOnUpdateSelfOnly(id, teamID, req) ==
    \E existingPlayer \in playerRepoGetByTeamID(teamID) :
        /\ existingPlayer.id = id
        /\ NotNil(existingPlayer.jersey_number)
        /\ Deref(existingPlayer.jersey_number) = Deref(req.jersey_number)

jerseyTakenOnUpdate(id, teamID, req) ==
    \E existingPlayer \in playerRepoGetByTeamID(teamID) :
        /\ existingPlayer.id # id
        /\ NotNil(existingPlayer.jersey_number)
        /\ Deref(existingPlayer.jersey_number) = Deref(req.jersey_number)

JerseyTaken(n) ==
    Errorf("jersey number %d is already taken by another player on this team", <<n>>)

CreatePlayer(req) ==
    LET verr   == validateCreatePlayerRequest(req)
        player == [id |-> 0, team_id |-> req.team_id,
                   first_name |-> TrimSpace(req.first_name),
                   last_name |-> TrimSpace(req.last_name),
                   position |-> TrimSpace(req.position),
                   jersey_number |-> req.jersey_number,
                   height |-> req.height, weight |-> req.weight,
                   created_at |-> 0, updated_at |-> 0]
        r      == playerRepoCreate(player)
    IN  IF IsErr(verr)
        THEN Reject("CreatePlayer", 0, req, Wrap("validation failed: ", verr))
        ELSE IF ~teamRepoExists(req.team_id)
        THEN Reject("CreatePlayer", 0, req,
                    Errorf("team with ID %d not found", <<req.team_id>>))
        ELSE IF NotNil(req.jersey_number) /\ jerseyTakenOnCreate(req)
        THEN Reject("CreatePlayer", 0, req, JerseyTaken(Deref(req.jersey_number)))
        ELSE IF IsErr(r.err)
        THEN Reject("CreatePlayer", 0, req, Wrap("failed to create player: ", r.err))
        ELSE /\ nextId.player <= MaxPlayers
             /\ players' = players \cup {Deref(r.val)}
             /\ nextId' = [nextId EXCEPT !.player = @ + 1]
             /\ last' = Returned("CreatePlayer", 0, req, NoErr, r.val)
             /\ UNCHANGED <<teams, games, stats, now, probe, scope, inflight>>

UpdatePlayer(id, req) ==
    LET verr   == validateUpdatePlayerRequest(req)
        g      == playerRepoGetByID(id)
        old    == Deref(g.val)
        player == [old EXCEPT
                     !.first_name = IF NotNil(req.first_name)
                                    THEN TrimSpace(Deref(req.first_name)) ELSE @,
                     !.last_name = IF NotNil(req.last_name)
                                   THEN TrimSpace(Deref(req.last_name)) ELSE @,
                     !.position = IF NotNil(req.position)
                                  THEN TrimSpace(Deref(req.position)) ELSE @,
                     !.jersey_number = IF NotNil(req.jersey_number)
                                       THEN req.jersey_number ELSE @,
                     !.height = IF NotNil(req.height) THEN req.height ELSE @,
                     !.weight = IF NotNil(req.weight) THEN req.weight ELSE @]
        r      == playerRepoUpdate(player)
    IN  IF id <= 0
        THEN Reject("UpdatePlayer", id, req, Errorf("invalid player ID: %d", <<id>>))
        ELSE IF IsErr(verr)
        THEN Reject("UpdatePlayer", id, req, Wrap("validation failed: ", verr))
        ELSE IF IsErr(g.err)
        THEN Reject("UpdatePlayer", id, req, Wrap("failed to get player: ", g.err))
        ELSE IF NotNil(req.jersey_number) /\ jerseyTakenOnUpdate(id, old.team_id, req)
        THEN Reject("UpdatePlayer", id, req, JerseyTaken(Deref(req.jersey_number)))
        ELSE IF IsErr(r.err)
        THEN Reject("UpdatePlayer", id, req, Wrap("failed to update player: ", r.err))
        ELSE /\ players' = {p \in players : p.id # id} \cup {Deref(r.val)}
             /\ last' = Returned("UpdatePlayer", id, req, NoErr, r.ret)
             /\ UNCHANGED <<teams, games, stats, nextId, now, probe, scope, inflight>>

DeletePlayer(id) ==
    LET derr == playerRepoDelete(id)
    IN  IF id <= 0
        THEN Reject("DeletePlayer", id, Nil, Errorf("invalid player ID: %d", <<id>>))
        ELSE IF ~playerRepoExists(id)
        THEN Reject("DeletePlayer", id, Nil,
                    Errorf("player with ID %d not found", <<id>>))
        ELSE IF IsErr(derr)
        THEN Reject("DeletePlayer", id, Nil, Wrap("failed to delete player: ", derr))
        ELSE /\ players' = {p \in players : p.id # id}
             /\ last' = Returned("DeletePlayer", id, Nil, NoErr, Nil)
             /\ UNCHANGED <<teams, games, stats, nextId, now, probe, scope, inflight>>

----------------------------------------------------------------------------
(* Games: repository.  GetByID reads games JOIN teams (home) JOIN teams    *)
(* (away); Exists reads the games table alone.                             *)

gameRepoExists(id) == \E g \in games : g.id = id

gameRepoGetByID(id) ==
    IF \E g \in games : /\ g.id = id
                        /\ teamRepoExists(g.home_team_id)
                        /\ teamRepoExists(g.away_team_id)
    THEN [err |-> NoErr, val |-> Some(CHOOSE g \in games : g.id = id)]
    ELSE [err |-> Errorf("game with ID %d not found", <<id>>), val |-> Nil]

gameUnique(row) ==
    \A g \in games :
        g.id # row.id =>
            ~(/\ g.home_team_id = row.home_team_id
              /\ g.away_team_id = row.away_team_id
              /\ g.season = row.season
              /\ g.week = row.week
              /\ g.game_date = row.game_date)

gameRepoCreate(game) ==
    LET row == [game EXCEPT !.id = nextId.game,
                            !.created_at = now, !.updated_at = now]
    IN  IF ~gameUnique(row)
        THEN [err |-> Wrap("failed to create game: ",
                           Errorf("UNIQUE constraint failed: games", <<>>)),
              val |-> Nil]
        ELSE [err |-> NoErr, val |-> Some(row)]

gameRepoUpdate(game) ==
    IF ~gameRepoExists(game.id)
    THEN [err |-> Errorf("game with ID %d not found", <<game.id>>),
          val |-> Nil, ret |-> Nil]
    ELSE LET cur == CHOOSE g \in games : g.id = game.id
             row == [game EXCEPT !.created_at = cur.created_at, !.updated_at = now]
         IN  IF ~gameUnique(row)
             THEN [err |-> Wrap("failed to update game: ",
                                Errorf("UNIQUE constraint failed: games", <<>>)),
                   val |-> Nil, ret |-> Nil]
             ELSE [err |-> NoErr, val |-> Some(row),
                   ret |-> Some([game EXCEPT !.updated_at = now])]

gameRepoDelete(id) ==
    IF ~gameRepoExists(id)
    THEN Errorf("game with ID %d not found", <<id>>)
    ELSE NoErr

----------------------------------------------------------------------------
(* Games: service.  Instants are integers; time.Now() reads the clock now. *)
(* OneYear is the length of a year on that clock and ZeroTime the zero     *)
(* value of time.Time, an instant long before any clock reading.           *)

MinWeek == 1

MaxWeek == 22

OneYear == 2

ZeroTime == -100

Scheduled == <<"s","c","h","e","d","u","l","e","d">>

InProgress == <<"i","n","_","p","r","o","g","r","e","s","s">>

Completed == <<"c","o","m","p","l","e","t","e","d">>

Cancelled == <<"c","a","n","c","e","l","l","e","d">>

validStatusesAnyCase ==
    {Scheduled, InProgress, Completed, Cancelled, <<"C","o","m","p","l","e","t","e","d">>}

validStatuses == {Scheduled, InProgress, Completed, Cancelled}

InvalidStatus ==
    Errorf("invalid status: %s. Must be one of: scheduled, in_progress, completed, cancelled",
           <<>>)

NotAfter(t, u) == t <= u

Before(t, u) == t < u

After(t, u) == t > u

validateCreateGameRequest(req) ==
    IF req.home_team_id <= 0 THEN Errorf("home team ID must be positive", <<>>)
    ELSE IF req.away_team_id <= 0 THEN Errorf("away team ID must be positive", <<>>)
    ELSE IF req.season = <<>> THEN Errorf("season is required", <<>>)
    ELSE IF req.week < MinWeek \/ req.week > MaxWeek
    THEN Errorf("week must be between 1 and 22, got %d", <<req.week>>)
    ELSE IF req.game_date = ZeroTime THEN Errorf("game date is required", <<>>)
    ELSE IF Before(req.game_date, now - OneYear)
    THEN Errorf("game date cannot be more than 1 year in the past", <<>>)
    ELSE IF After(req.game_date, now + 2 * OneYear)
    THEN Errorf("game date cannot be more than 2 years in the future", <<>>)
    ELSE IF req.status # <<>> /\ req.status \notin validStatuses THEN InvalidStatus
    ELSE IF NotNil(req.home_score) /\ Deref(req.home_score) < 0
    THEN Errorf("home score cannot be negative", <<>>)
    ELSE IF NotNil(req.away_score) /\ Deref(req.away_score) < 0
    THEN Errorf("away score cannot be negative", <<>>)
    ELSE NoErr

validateUpdateGameRequest(req) ==
    IF NotNil(req.home_team_id) /\ Deref(req.home_team_id) <= 0
    THEN Errorf("home team ID must be positive", <<>>)
    ELSE IF NotNil(req.away_team_id) /\ Deref(req.away_team_id) <= 0
    THEN Errorf("away team ID must be positive", <<>>)
    ELSE IF NotNil(req.season) /\ Deref(req.season) = <<>>
    THEN Errorf("season cannot be empty", <<>>)
    ELSE IF NotNil(req.week) /\ (Deref(req.week) < MinWeek \/ Deref(req.week) > MaxWeek)
    THEN Errorf("week must be between 1 and 22, got %d", <<Deref(req.week)>>)
    ELSE IF NotNil(req.game_date) /\ Deref(req.game_date) = ZeroTime
    THEN Errorf("game date cannot be zero", <<>>)
    ELSE IF NotNil(req.game_date) /\ Before(Deref(req.game_date), now - OneYear)
    THEN Errorf("game date cannot be more than 1 year in the past", <<>>)
    ELSE IF NotNil(req.game_date) /\ After(Deref(req.game_date), now + 2 * OneYear)
    THEN Errorf("game date cannot be more than 2 years in the future", <<>>)
    ELSE IF NotNil(req.status) /\ Deref(req.status) \notin validStatuses
    THEN InvalidStatus
    ELSE IF NotNil(req.home_score) /\ Deref(req.home_score) < 0
    THEN Errorf("home score cannot be negative", <<>>)
    ELSE IF NotNil(req.away_score) /\ Deref(req.away_score) < 0
    THEN Errorf("away score cannot be negative", <<>>)
    ELSE NoErr

GetGameByID(id) ==
    IF id <= 0
    THEN [err |-> Errorf("invalid game ID: %d", <<id>>), val |-> Nil]
    ELSE gameRepoGetByID(id)

SameTeams == Errorf("home team and away team cannot be the same", <<>>)

CreateGame(req) ==
    LET verr == validateCreateGameRequest(req)
        game == [id |-> 0,
                 home_team_id |-> req.home_team_id, away_team_id |-> req.away_team_id,
                 season |-> req.season, week |-> req.week, game_date |-> req.game_date,
                 status |-> IF req.status = <<>> THEN Scheduled ELSE req.status,
                 home_score |-> req.home_score, away_score |-> req.away_score,
                 created_at |-> 0, updated_at |-> 0]
        r    == gameRepoCreate(game)
    IN  IF IsErr(verr)
        THEN Reject("CreateGame", 0, req, Wrap("validation failed: ", verr))
        ELSE IF ~teamRepoExists(req.home_team_id)
        THEN Reject("CreateGame", 0, req,
                    Errorf("home team with ID %d not found", <<req.home_team_id>>))
        ELSE IF ~teamRepoExists(req.away_team_id)
        THEN Reject("CreateGame", 0, req,
                    Errorf("away team with ID %d not found", <<req.away_team_id>>))
        ELSE IF req.home_team_id = req.away_team_id
        THEN Reject("CreateGame", 0, req, SameTeams)
        ELSE IF IsErr(r.err)
        THEN Reject("CreateGame", 0, req, Wrap("failed to create game: ", r.err))
        ELSE /\ nextId.game <= MaxGames
             /\ games' = games \cup {Deref(r.val)}
             /\ nextId' = [nextId EXCEPT !.game = @ + 1]
             /\ last' = Returned("CreateGame", 0, req, NoErr, r.val)
             /\ UNCHANGED <<teams, players, stats, now, probe, scope, inflight>>

teamsClashInPatch(home, away, req) ==
    /\ NotNil(req.home_team_id) /\ NotNil(req.away_team_id)
    /\ Deref(req.home_team_id) = Deref(req.away_team_id)

teamsClash(home, away, req) == home = away

UpdateGameWritingFirst(id, req) ==
    LET g     == gameRepoGetByID(id)
        old   == Deref(g.val)
        verr  == validateUpdateGameRequest(req)
        home  == IF NotNil(req.home_team_id) THEN Deref(req.home_team_id)
                 ELSE old.home_team_id
        away  == IF NotNil(req.away_team_id) THEN Deref(req.away_team_id)
                 ELSE old.away_team_id
        game  == [old EXCEPT
                    !.home_team_id = home,
                    !.away_team_id = away,
                    !.season = IF NotNil(req.season) THEN Deref(req.season) ELSE @,
                    !.week = IF NotNil(req.week) THEN Deref(req.week) ELSE @,
                    !.game_date = IF NotNil(req.game_date) THEN Deref(req.game_date) ELSE @,
                    !.status = IF NotNil(req.status) THEN Deref(req.status) ELSE @,
                    !.home_score = IF NotNil(req.home_score) THEN req.home_score ELSE @,
                    !.away_score = IF NotNil(req.away_score) THEN req.away_score ELSE @]
        r     == gameRepoUpdate(game)
    IN  IF id <= 0
        THEN Reject("UpdateGame", id, req, Errorf("invalid game ID: %d", <<id>>))
        ELSE IF IsErr(g.err)
        THEN Reject("UpdateGame", id, req, Wrap("failed to get game: ", g.err))
        ELSE IF IsErr(verr)
        THEN Reject("UpdateGame", id, req, Wrap("validation failed: ", verr))
        ELSE IF NotNil(req.home_team_id) /\ ~teamRepoExists(Deref(req.home_team_id))
        THEN Reject("UpdateGame", id, req,
                    Errorf("home team with ID %d not found", <<Deref(req.home_team_id)>>))
        ELSE IF NotNil(req.away_team_id) /\ ~teamRepoExists(Deref(req.away_team_id))
        THEN Reject("UpdateGame", id, req,
                    Errorf("away team with ID %d not found", <<Deref(req.away_team_id)>>))
        ELSE IF teamsClash(home, away, req)
        THEN /\ games' = {x \in games : x.id # id} \cup {[game EXCEPT !.updated_at = now]}
             /\ last' = Returned("UpdateGame", id, req, SameTeams, Nil)
             /\ UNCHANGED <<teams, players, stats, nextId, now, probe, scope, inflight>>
        ELSE IF IsErr(r.err)
        THEN Reject("UpdateGame", id, req, Wrap("failed to update game: ", r.err))
        ELSE /\ games' = {x \in games : x.id # id} \cup {Deref(r.val)}
             /\ last' = Returned("UpdateGame", id, req, NoErr, r.ret)
             /\ UNCHANGED <<teams, players, stats, nextId, now, probe, scope, inflight>>

UpdateGame(id, req) ==
    LET g     == gameRepoGetByID(id)
        old   == Deref(g.val)
        verr  == validateUpdateGameRequest(req)
        home  == IF NotNil(req.home_team_id) THEN Deref(req.home_team_id)
                 ELSE old.home_team_id
        away  == IF NotNil(req.away_team_id) THEN Deref(req.away_team_id)
                 ELSE old.away_team_id
        game  == [old EXCEPT
                    !.home_team_id = home,
                    !.away_team_id = away,
                    !.season = IF NotNil(req.season) THEN Deref(req.season) ELSE @,
                    !.week = IF NotNil(req.week) THEN Deref(req.week) ELSE @,
                    !.game_date = IF NotNil(req.game_date) THEN Deref(req.game_date) ELSE @,
                    !.status = IF NotNil(req.status) THEN Deref(req.status) ELSE @,
                    !.home_score = IF NotNil(req.home_score) THEN req.home_score ELSE @,
                    !.away_score = IF NotNil(req.away_score) THEN req.away_score ELSE @]
        r     == gameRepoUpdate(game)
    IN  IF id <= 0
        THEN Reject("UpdateGame", id, req, Errorf("invalid game ID: %d", <<id>>))
        ELSE IF IsErr(g.err)
        THEN Reject("UpdateGame", id, req, Wrap("failed to get game: ", g.err))
        ELSE IF IsErr(verr)
        THEN Reject("UpdateGame", id, req, Wrap("validation failed: ", verr))
        ELSE IF NotNil(req.home_team_id) /\ ~teamRepoExists(Deref(req.home_team_id))
        THEN Reject("UpdateGame", id, req,
                    Errorf("home team with ID %d not found", <<Deref(req.home_team_id)>>))
        ELSE IF NotNil(req.away_team_id) /\ ~teamRepoExists(Deref(req.away_team_id))
        THEN Reject("UpdateGame", id, req,
                    Errorf("away team with ID %d not found", <<Deref(req.away_team_id)>>))
        ELSE IF teamsClash(home, away, req)
        THEN Reject("UpdateGame", id, req, SameTeams)
        ELSE IF IsErr(r.err)
        THEN Reject("UpdateGame", id, req, Wrap("failed to update game: ", r.err))
        ELSE /\ games' = {x \in games : x.id # id} \cup {Deref(r.val)}
             /\ last' = Returned("UpdateGame", id, req, NoErr, r.ret)
             /\ UNCHANGED <<teams, players, stats, nextId, now, probe, scope, inflight>>

DeleteGame(id) ==
    LET derr == gameRepoDelete(id)
    IN  IF id <= 0
        THEN Reject("DeleteGame", id, Nil, Errorf("invalid game ID: %d", <<id>>))
        ELSE IF ~gameRepoExists(id)
        THEN Reject("DeleteGame", id, Nil, Errorf("game with ID %d not found", <<id>>))
        ELSE IF IsErr(derr)
        THEN Reject("DeleteGame", id, Nil, derr)
        ELSE /\ games' = {g \in games : g.id # id}
             /\ last' = Returned("DeleteGame", id, Nil, NoErr, Nil)
             /\ UNCHANGED <<teams, players, stats, nextId, now, probe, scope, inflight>>

----------------------------------------------------------------------------
(* Player stats.  The 35 nil-able counters of a row, a create request or   *)
(* an update request are a function from the column name to the value;     *)
(* nonNegativeFields lists the columns in the order the validators scan    *)
(* them.                                                                   *)

nonNegativeFields ==
    << "passing_attempts", "passing_completions", "passing_yards", "passing_touchdowns", "passing_interceptions",
       "rushing_attempts", "rushing_yards", "rushing_touchdowns",
       "receiving_targets", "receptions", "receiving_yards", "receiving_touchdowns",
       "fumbles", "fumbles_lost",
       "tackles", "solo_tackles", "assisted_tackles", "sacks", "defensive_interceptions",
       "pass_deflections", "forced_fumbles", "fumble_recoveries", "defensive_touchdowns",
       "field_goals_attempted", "field_goals_made", "extra_points_attempted", "extra_points_made",
       "punts", "punt_yards", "kick_returns", "kick_return_yards", "kick_return_touchdowns",
       "punt_returns", "punt_return_yards", "punt_return_touchdowns" >>

StatFields == {nonNegativeFields[i] : i \in 1..Len(nonNegativeFields)}

NoCounters == [f \in StatFields |-> Nil]

statsRepoExists(id) == \E x \in stats : x.id = id

statsRepoGetByID(id) ==
    IF \E x \in stats :
          /\ x.id = id
          /\ \E p \in players : p.id = x.player_id /\ teamRepoExists(p.team_id)
    THEN [err |-> NoErr, val |-> Some(CHOOSE x \in stats : x.id = id)]
    ELSE [err |-> Errorf("player stats with ID %d not found", <<id>>), val |-> Nil]

ExistsByPlayerAndGameOrNoGame(playerID, gameID) ==
    \/ \E x \in stats : x.player_id = playerID /\ x.game_id = gameID
    \/ ~gameRepoExists(gameID)

ExistsByGameAndPlayer(playerID, gameID) ==
    \E x \in stats : x.player_id = gameID /\ x.game_id = playerID

ExistsByPlayerAndGame(playerID, gameID) ==
    \E x \in stats : x.player_id = playerID /\ x.game_id = gameID

statsUniqueNone(row) == TRUE

statsUnique(row) ==
    \A x \in stats :
        x.id # row.id => ~(x.player_id = row.player_id /\ x.game_id = row.game_id)

statsRepoCreate(st) ==
    LET row == [st EXCEPT !.id = nextId.stats,
                          !.created_at = now, !.updated_at = now]
    IN  IF ~statsUnique(row)
        THEN [err |-> Wrap("failed to create player stats: ",
                           Errorf("UNIQUE constraint failed: player_stats.player_id, player_stats.game_id", <<>>)),
              val |-> Nil]
        ELSE [err |-> NoErr, val |-> Some(row)]

statsRepoUpdate(st) ==
    IF ~statsRepoExists(st.id)
    THEN [err |-> Errorf("player stats with ID %d not found", <<st.id>>),
          val |-> Nil, ret |-> Nil]
    ELSE LET cur == CHOOSE x \in stats : x.id = st.id
             row == [cur EXCEPT !.counters = st.counters, !.updated_at = now]
         IN  [err |-> NoErr, val |-> Some(row),
              ret |-> Some([st EXCEPT !.updated_at = now])]

statsRepoDelete(id) ==
    IF ~statsRepoExists(id)
    THEN Errorf("player stats with ID %d not found", <<id>>)
    ELSE NoErr

Both(c, a, b) == NotNil(c[a]) /\ NotNil(c[b])

ExceedsOrEquals(c, a, b) == Deref(c[a]) >= Deref(c[b])

Exceeds(c, a, b) == Deref(c[a]) > Deref(c[b])

TacklesExceedSum(c) ==
    /\ NotNil(c["tackles"]) /\ NotNil(c["solo_tackles"]) /\ NotNil(c["assisted_tackles"])
    /\ Deref(c["tackles"]) > Deref(c["solo_tackles"]) + Deref(c["assisted_tackles"])

TacklesMismatch(c) ==
    /\ NotNil(c["tackles"]) /\ NotNil(c["solo_tackles"]) /\ NotNil(c["assisted_tackles"])
    /\ Deref(c["tackles"]) # Deref(c["solo_tackles"]) + Deref(c["assisted_tackles"])

noNegative(c) == 0

firstNegative(c) ==
    LET bad == {i \in 1..Len(nonNegativeFields) :
                   NotNil(c[nonNegativeFields[i]]) /\ Deref(c[nonNegativeFields[i]]) < 0}
    IN  IF bad = {} THEN 0 ELSE CHOOSE i \in bad : \A j \in bad : i <= j

Negative(i) == [msg |-> "%s cannot be negative", args |-> <<i>>, wrap |-> <<>>]

validateStatConstraints(req) ==
    LET c == req.counters
    IN  IF Both(c, "passing_completions", "passing_attempts")
           /\ Exceeds(c, "passing_completions", "passing_attempts")
        THEN Errorf("passing completions cannot exceed passing attempts", <<>>)
        ELSE IF TacklesMismatch(c)
        THEN Errorf("total tackles must equal solo tackles plus assisted tackles", <<>>)
        ELSE IF Both(c, "field_goals_made", "field_goals_attempted")
                /\ Exceeds(c, "field_goals_made", "field_goals_attempted")
        THEN Errorf("field goals made cannot exceed field goals attempted", <<>>)
        ELSE IF Both(c, "extra_points_made", "extra_points_attempted")
                /\ Exceeds(c, "extra_points_made", "extra_points_attempted")
        THEN Errorf("extra points made cannot exceed extra points attempted", <<>>)
        ELSE IF Both(c, "fumbles_lost", "fumbles")
                /\ Exceeds(c, "fumbles_lost", "fumbles")
        THEN Errorf("fumbles lost cannot exceed total fumbles", <<>>)
        ELSE IF firstNegative(c) # 0 THEN Negative(firstNegative(c))
        ELSE NoErr

validateUpdateStatConstraints(req) ==
    LET c == req.counters
    IN  IF Both(c, "passing_completions", "passing_attempts")
           /\ Exceeds(c, "passing_completions", "passing_attempts")
        THEN Errorf("passing completions cannot exceed passing attempts", <<>>)
        ELSE IF TacklesMismatch(c)
        THEN Errorf("total tackles must equal solo tackles plus assisted tackles", <<>>)
        ELSE IF Both(c, "field_goals_made", "field_goals_attempted")
                /\ Exceeds(c, "field_goals_made", "field_goals_attempted")
        THEN Errorf("field goals made cannot exceed field goals attempted", <<>>)
        ELSE IF Both(c, "extra_points_made", "extra_points_attempted")
                /\ Exceeds(c, "extra_points_made", "extra_points_attempted")
        THEN Errorf("extra points made cannot exceed extra points attempted", <<>>)
        ELSE IF Both(c, "fumbles_lost", "fumbles")
                /\ Exceeds(c, "fumbles_lost", "fumbles")
        THEN Errorf("fumbles lost cannot exceed total fumbles", <<>>)
        ELSE IF firstNegative(c) # 0 THEN Negative(firstNegative(c))
        ELSE NoErr

validateCreatePlayerStatsRequest(req) ==
    IF req.player_id <= 0
    THEN Errorf("player ID is required and must be positive", <<>>)
    ELSE IF req.game_id <= 0
    THEN Errorf("game ID is required and must be positive", <<>>)
    ELSE IF \A f \in StatFields : IsNil(req.counters[f])
    THEN Errorf("at least one statistic must be provided", <<>>)
    ELSE validateStatConstraints(req)

validateUpdatePlayerStatsRequest(req) ==
    IF \A f \in StatFields : IsNil(req.counters[f])
    THEN Errorf("at least one field must be provided for update", <<>>)
    ELSE validateUpdateStatConstraints(req)

GetPlayerStats(id) ==
    IF id <= 0
    THEN [err |-> Errorf("invalid player stats ID: %d", <<id>>), val |-> Nil]
    ELSE LET r == statsRepoGetByID(id)
         IN  IF IsErr(r.err)
             THEN [err |-> Wrap("failed to get player stats: ", r.err), val |-> Nil]
             ELSE r

StatsExist(playerID, gameID) ==
    Errorf("player stats already exist for player %d in game %d", <<playerID, gameID>>)

CreatePlayerStats(req) ==
    LET verr == validateCreatePlayerStatsRequest(req)
        st   == [id |-> 0, player_id |-> req.player_id, game_id |-> req.game_id,
                 counters |-> req.counters, created_at |-> 0, updated_at |-> 0]
        r    == statsRepoCreate(st)
    IN  IF IsErr(verr)
        THEN Reject("CreatePlayerStats", 0, req, Wrap("validation failed: ", verr))
        ELSE IF ~playerRepoExists(req.player_id)
        THEN Reject("CreatePlayerStats", 0, req,
                    Errorf("player with ID %d not found", <<req.player_id>>))
        ELSE IF ExistsByPlayerAndGame(req.player_id, req.game_id)
        THEN Reject("CreatePlayerStats", 0, req, StatsExist(req.player_id, req.game_id))
        ELSE IF IsErr(r.err)
        THEN Reject("CreatePlayerStats", 0, req,
                    Wrap("failed to create player stats: ", r.err))
        ELSE /\ nextId.stats <= MaxStats
             /\ stats' = stats \cup {Deref(r.val)}
             /\ nextId' = [nextId EXCEPT !.stats = @ + 1]
             /\ last' = Returned("CreatePlayerStats", 0, req, NoErr, r.val)
             /\ UNCHANGED <<teams, players, games, now, probe, scope, inflight>>

validatedOnUpdateMerged(id, req) ==
    IF statsRepoExists(id)
    THEN [counters |-> [f \in StatFields |->
                          IF NotNil(req.counters[f]) THEN req.counters[f]
                          ELSE (CHOOSE x \in stats : x.id = id).counters[f]]]
    ELSE req

validatedOnUpdate(id, req) == req

UpdatePlayerStats(id, req) ==
    LET verr == validateUpdatePlayerStatsRequest(validatedOnUpdate(id, req))
        g    == statsRepoGetByID(id)
        old  == Deref(g.val)
        st   == [old EXCEPT
                   !.counters = [f \in StatFields |->
                                   IF NotNil(req.counters[f]) THEN req.counters[f]
                                   ELSE old.counters[f]]]
        r    == statsRepoUpdate(st)
    IN  IF id <= 0
        THEN Reject("UpdatePlayerStats", id, req,
                    Errorf("invalid player stats ID: %d", <<id>>))
        ELSE IF IsErr(verr)
        THEN Reject("UpdatePlayerStats", id, req, Wrap("validation failed: ", verr))
        ELSE IF IsErr(g.err)
        THEN Reject("UpdatePlayerStats", id, req,
                    Wrap("failed to get player stats: ", g.err))
        ELSE IF IsErr(r.err)
        THEN Reject("UpdatePlayerStats", id, req,
                    Wrap("failed to update player stats: ", r.err))
        ELSE /\ stats' = {x \in stats : x.id # id} \cup {Deref(r.val)}
             /\ last' = Returned("UpdatePlayerStats", id, req, NoErr, r.ret)
             /\ UNCHANGED <<teams, players, games, nextId, now, probe, scope, inflight>>

DeletePlayerStats(id) ==
    LET derr == statsRepoDelete(id)
    IN  IF id <= 0
        THEN Reject("DeletePlayerStats", id, Nil,
                    Errorf("invalid player stats ID: %d", <<id>>))
        ELSE IF ~statsRepoExists(id)
        THEN Reject("DeletePlayerStats", id, Nil,
                    Errorf("player stats with ID %d not found", <<id>>))
        ELSE IF IsErr(derr)
        THEN Reject("DeletePlayerStats", id, Nil,
                    Wrap("failed to delete player stats: ", derr))
        ELSE /\ stats' = {x \in stats : x.id # id}
             /\ last' = Returned("DeletePlayerStats", id, Nil, NoErr, Nil)
             /\ UNCHANGED <<teams, players, games, nextId, now, probe, scope, inflight>>

----------------------------------------------------------------------------
(* Requests.  The service calls explored: a few requests per operation,    *)
(* chosen to reach every branch of the handlers.                           *)

TeamIds == 0..MaxTeams

PlayerIds == 0..MaxPlayers

GameIds == 0..MaxGames

StatsIds == 0..MaxStats

AFC == <<"A","F","C">>

West == <<"W","e","s","t">>

TeamCreateReqs ==
    { [name |-> <<"A">>, city |-> <<"M">>, conference |-> AFC, division |-> West],
      [name |-> <<" ","B">>, city |-> <<"M"," ">>,
       conference |-> <<"n","f","c">>, division |-> <<"E","A","S","T">>],
      [name |-> <<" ">>, city |-> <<"M">>, conference |-> AFC, division |-> West],
      [name |-> <<"A">>, city |-> <<"M">>, conference |-> <<"X","F","C">>,
       division |-> West] }

ParentTeamReqs == {req \in TeamCreateReqs : validateCreateTeamRequest(req) = NoErr}

NoTeamPatch == [name |-> Nil, city |-> Nil, conference |-> Nil, division |-> Nil]

TeamPatches ==
    { NoTeamPatch,
      [NoTeamPatch EXCEPT !.name = Some(<<"B"," ">>)],
      [NoTeamPatch EXCEPT !.conference = Some(<<"X">>)] }

PlayerReq(t, f, j) ==
    [team_id |-> t, first_name |-> f, last_name |-> <<"Q">>,
     position |-> <<"Q","B">>, jersey_number |-> j, height |-> Nil, weight |-> Nil]

PlayerCreateReqs ==
    { PlayerReq(t, <<" ","P">>, j) : t \in TeamIds, j \in {Nil, Some(7)} }
    \cup { PlayerReq(1, <<" ">>, Some(7)), PlayerReq(1, <<"P">>, Some(100)),
           [PlayerReq(1, <<"P">>, Nil) EXCEPT !.height = Some(MinHeight - 1)] }

ParentPlayerReqs == { PlayerReq(t, <<" ","P">>, Nil) : t \in TeamIds \ {0} }

NoPlayerPatch ==
    [first_name |-> Nil, last_name |-> Nil, position |-> Nil,
     jersey_number |-> Nil, height |-> Nil, weight |-> Nil]

PlayerPatches ==
    { NoPlayerPatch,
      [NoPlayerPatch EXCEPT !.jersey_number = Some(7)],
      [NoPlayerPatch EXCEPT !.jersey_number = Some(100)],
      [NoPlayerPatch EXCEPT !.first_name = Some(<<"R"," ">>),
                            !.height = Some(MaxHeight), !.weight = Some(MinWeight)],
      [NoPlayerPatch EXCEPT !.weight = Some(MaxWeight + 1)],
      [NoPlayerPatch EXCEPT !.first_name = Some(<<" ">>), !.jersey_number = Some(7)] }

GameReq(h, a, w, st, hs) ==
    [home_team_id |-> h, away_team_id |-> a, season |-> <<"2","4">>, week |-> w,
     game_date |-> 0, status |-> st, home_score |-> hs, away_score |-> Nil]

GameCreateReqs ==
    { GameReq(h, a, 1, <<>>, Nil) : h \in TeamIds, a \in TeamIds \ {0} }
    \cup { GameReq(1, 1, 0, <<>>, Nil), GameReq(1, 2, 22, Completed, Some(3)),
           GameReq(1, 2, 1, <<>>, Some(0 - 1)),
           GameReq(1, 2, 1, <<"C","o","m","p","l","e","t","e","d">>, Nil) }

NoGamePatch ==
    [home_team_id |-> Nil, away_team_id |-> Nil, season |-> Nil, week |-> Nil,
     game_date |-> Nil, status |-> Nil, home_score |-> Nil, away_score |-> Nil]

GamePatches ==
    { NoGamePatch,
      [NoGamePatch EXCEPT !.home_team_id = Some(1)],
      [NoGamePatch EXCEPT !.home_team_id = Some(2)],
      [NoGamePatch EXCEPT !.away_team_id = Some(1)],
      [NoGamePatch EXCEPT !.home_team_id = Some(2), !.away_team_id = Some(1)],
      [NoGamePatch EXCEPT !.week = Some(0)],
      [NoGamePatch EXCEPT !.away_score = Some(0 - 1)],
      [NoGamePatch EXCEPT !.away_team_id = Some(MaxTeams + 1)],
      [NoGamePatch EXCEPT !.status = Some(Completed)],
      [NoGamePatch EXCEPT !.status = Some(<<"C","o","m","p","l","e","t","e","d">>)],
      [NoGamePatch EXCEPT !.status = Some(<<>>)] }

Passing(att, comp) ==
    [NoCounters EXCEPT !["passing_attempts"] = att, !["passing_completions"] = comp]

StatsReq(p, g, c) == [player_id |-> p, game_id |-> g, counters |-> c]

StatsCreateReqs ==
    { StatsReq(p, 1, Passing(Some(35), Some(28))) : p \in PlayerIds }
    \cup { StatsReq(1, 0, Passing(Some(35), Some(28))),
           StatsReq(1, 1, Passing(Some(35), Some(36))),
           StatsReq(1, 1, NoCounters),
           StatsReq(1, 1, Passing(Some(0 - 1), Nil)) }

StatsPatches ==
    { [counters |-> NoCounters],
      [counters |-> Passing(Some(10), Nil)],
      [counters |-> Passing(Some(3), Some(5))],
      [counters |-> Passing(Nil, Some(0 - 1))],
      [counters |-> Passing(Nil, Some(28))] }

----------------------------------------------------------------------------
(* The system: one client that makes a service call, receives its result  *)
(* and only then makes the next call, and the clock.  A run exercises one  *)
(* service and, for the rows that service depends on, the creation and     *)
(* deletion of its parents; scope records which.  No operation on players  *)
(* or player stats reads or writes the games table, no operation on games  *)
(* reads or writes players or player stats, and no operation on a child    *)
(* table reads a parent's columns other than its id.  A run on a child    *)
(* family creates its parents from the requests that pass validation,     *)
(* reads by id are made on the run's own family, and the clock advances   *)
(* during the runs on teams and on games; the runs on players and on      *)
(* player stats take place within one reading of the clock.               *)

NoProbe == [fn |-> "none", in |-> Nil, done |-> TRUE, err |-> NoErr]

(* the requests being served concurrently, one per client connection: the *)
(* operation, how far it got, what it was given, the row it holds in      *)
(* memory and the error it returned                                       *)
Clients == {"a", "b"}

NoRequest ==
    [op |-> "none", pc |-> "none", id |-> 0, req |-> Nil, row |-> Nil, err |-> NoErr]

Init ==
    /\ teams = {}
    /\ players = {}
    /\ games = {}
    /\ stats = {}
    /\ nextId = [team |-> 1, player |-> 1, game |-> 1, stats |-> 1]
    /\ now = 0
    /\ last = NoCall
    /\ probe = NoProbe
    /\ inflight = [c \in Clients |-> NoRequest]
    /\ scope \in {"teams", "players", "games", "stats"}

Idle == last = NoCall

Return ==
    /\ ~Idle
    /\ last' = NoCall
    /\ UNCHANGED <<teams, players, games, stats, nextId, now, probe, scope, inflight>>

Tick ==
    /\ Idle
    /\ scope \in {"teams", "games", "dates"}
    /\ now < MaxClock
    /\ now' = now + 1
    /\ UNCHANGED <<teams, players, games, stats, nextId, last, probe, scope, inflight>>

(* the client reads when idle or right after a write that succeeded *)
Fetched(o, id, r) ==
    /\ Idle \/ (last.op \notin {"none", "GetTeam", "GetPlayer", "GetGameByID",
                                "GetPlayerStats"} /\ last.err = NoErr)
    /\ last' = Returned(o, id, Nil, r.err, r.val)
    /\ UNCHANGED <<teams, players, games, stats, nextId, now, probe, scope, inflight>>

CallGetTeam ==
    /\ scope \in {"teams"}
    /\ \E id \in TeamIds : Fetched("GetTeam", id, GetTeam(id))

CallGetPlayer ==
    /\ scope \in {"players"}
    /\ \E id \in PlayerIds : Fetched("GetPlayer", id, GetPlayer(id))

CallGetGameByID ==
    /\ scope \in {"games"}
    /\ \E id \in GameIds : Fetched("GetGameByID", id, GetGameByID(id))

CallGetPlayerStats ==
    /\ scope \in {"stats"}
    /\ \E id \in StatsIds : Fetched("GetPlayerStats", id, GetPlayerStats(id))

CallCreateTeam ==
    /\ Idle
    /\ \E req \in IF scope = "teams" THEN TeamCreateReqs ELSE ParentTeamReqs :
           CreateTeam(req)

CallUpdateTeam ==
    /\ Idle
    /\ scope \in {"teams"}
    /\ \E id \in TeamIds, req \in TeamPatches : UpdateTeam(id, req)

CallDeleteTeam ==
    /\ Idle
    /\ \E id \in TeamIds : DeleteTeam(id)

CallCreatePlayer ==
    /\ Idle
    /\ scope \in {"players", "stats"}
    /\ \E req \in IF scope = "players" THEN PlayerCreateReqs ELSE ParentPlayerReqs :
           CreatePlayer(req)

CallUpdatePlayer ==
    /\ Idle
    /\ scope \in {"players"}
    /\ \E id \in PlayerIds, req \in PlayerPatches : UpdatePlayer(id, req)

CallDeletePlayer ==
    /\ Idle
    /\ scope \in {"players", "stats"}
    /\ \E id \in PlayerIds : DeletePlayer(id)

CallCreateGame ==
    /\ Idle
    /\ scope \in {"games"}
    /\ \E req \in GameCreateReqs : CreateGame(req)

CallUpdateGame ==
    /\ Idle
    /\ scope \in {"games"}
    /\ \E id \in GameIds, req \in GamePatches : UpdateGame(id, req)

CallDeleteGame ==
    /\ Idle
    /\ scope \in {"games"}
    /\ \E id \in GameIds : DeleteGame(id)

CallCreatePlayerStats ==
    /\ Idle
    /\ scope \in {"stats"}
    /\ \E req \in StatsCreateReqs : CreatePlayerStats(req)

CallUpdatePlayerStats ==
    /\ Idle
    /\ scope \in {"stats"}
    /\ \E id \in StatsIds, req \in StatsPatches : UpdatePlayerStats(id, req)

CallDeletePlayerStats ==
    /\ Idle
    /\ scope \in {"stats"}
    /\ \E id \in StatsIds : DeletePlayerStats(id)

Next ==
    \/ Tick
    \/ Return
    \/ CallGetTeam
    \/ CallGetPlayer
    \/ CallGetGameByID
    \/ CallGetPlayerStats
    \/ CallCreateTeam
    \/ CallUpdateTeam
    \/ CallDeleteTeam
    \/ CallCreatePlayer
    \/ CallUpdatePlayer
    \/ CallDeletePlayer
    \/ CallCreateGame
    \/ CallUpdateGame
    \/ CallDeleteGame
    \/ CallCreatePlayerStats
    \/ CallUpdatePlayerStats
    \/ CallDeletePlayerStats

Spec == Init /\ [][Next]_vars

----------------------------------------------------------------------------
(* The validators on their own: a request is drawn from a bounded set and  *)
(* the validator of its kind is applied to it.                             *)

MaxSupplied == 3

MaxStatValue == 2

Margin == 1

StatValues == (0 - 1)..MaxStatValue

FocusFields ==
    { "passing_attempts", "passing_completions", "passing_yards",
      "fumbles", "fumbles_lost", "tackles", "solo_tackles", "assisted_tackles",
      "field_goals_attempted", "field_goals_made",
      "extra_points_attempted", "extra_points_made", "punt_return_touchdowns" }

SuppliedSets == {T \in SUBSET FocusFields : Cardinality(T) <= MaxSupplied}

Counters(S, v) == [f \in StatFields |-> IF f \in S THEN Some(v[f]) ELSE Nil]

Inputs(kind) ==
    CASE kind = "jersey" ->
           {Nil} \cup {Some(n) : n \in (MinJersey - Margin)..(MaxJersey + Margin)}
      [] kind = "height" ->
           {Nil} \cup {Some(n) : n \in {MinHeight - Margin, MinHeight,
                                        MaxHeight, MaxHeight + Margin}}
      [] kind = "weight" ->
           {Nil} \cup {Some(n) : n \in {MinWeight - Margin, MinWeight,
                                        MaxWeight, MaxWeight + Margin}}
      [] kind = "week" -> (MinWeek - Margin)..(MaxWeek + Margin)
      [] kind = "date" ->
           { ZeroTime, 0 - OneYear - Margin, 0 - OneYear, 0,
             2 * OneYear, 2 * OneYear + Margin }
      [] kind = "status" ->
           { <<>>, Scheduled, Cancelled,
             <<"S","c","h","e","d","u","l","e","d">>, <<"x">> }
      [] kind = "score" -> {Nil, Some(0 - 1), Some(0)}
      [] kind = "conference" ->
           { AFC, <<"a","f","c">>, <<"N","f","C">>, <<"X","F","C">>, <<"A","F">>,
             <<" ","A","F","C">>, <<" ">>, <<>> }
      [] kind = "division" ->
           { West, <<"E","A","S","T">>, <<"n","o","r","t","h">>,
             <<"W","e","s">>, <<" ">>, <<>> }
      [] kind = "name" -> { <<"A">>, <<" ","B"," ">>, <<" ">>, <<"\t"," ">>, <<>> }

Pending(f, x) == [fn |-> f, in |-> x, done |-> FALSE, err |-> NoErr]

DrawTeam ==
    \/ \E n \in Inputs("name"), ci \in {<<"M">>, <<" ">>, <<>>},
          c \in Inputs("conference"), d \in Inputs("division") :
          probe = Pending("validateCreateTeamRequest",
                          [name |-> n, city |-> ci, conference |-> c, division |-> d])
    \/ \E n \in {Nil} \cup {Some(x) : x \in Inputs("name")},
          ci \in {Nil, Some(<<"M">>), Some(<<" ">>)},
          c \in {Nil} \cup {Some(x) : x \in Inputs("conference")},
          d \in {Nil} \cup {Some(x) : x \in Inputs("division")} :
          probe = Pending("validateUpdateTeamRequest",
                          [name |-> n, city |-> ci, conference |-> c, division |-> d])

DrawStats ==
    \E S \in SuppliedSets : \E v \in [S -> StatValues] :
        \/ probe = Pending("validateCreatePlayerStatsRequest",
                           [player_id |-> 1, game_id |-> 1, counters |-> Counters(S, v)])
        \/ probe = Pending("validateUpdatePlayerStatsRequest",
                           [counters |-> Counters(S, v)])

DrawPlayerNames ==
    \E f \in Inputs("name"), l \in Inputs("name"), p \in Inputs("name") :
        \/ probe = Pending("validateCreatePlayerRequest",
                           [team_id |-> 1, first_name |-> f, last_name |-> l,
                            position |-> p, jersey_number |-> Nil,
                            height |-> Nil, weight |-> Nil])
        \/ probe = Pending("validateUpdatePlayerRequest",
                           [NoPlayerPatch EXCEPT !.first_name = Some(f),
                                                 !.last_name = Some(l),
                                                 !.position = Some(p)])

DrawPlayer ==
    \E j \in Inputs("jersey"), h \in Inputs("height"), w \in Inputs("weight") :
        \/ \E f \in {<<"P">>, <<" ">>} :
              probe = Pending("validateCreatePlayerRequest",
                              [team_id |-> 1, first_name |-> f, last_name |-> <<"Q">>,
                               position |-> <<"Q","B">>, jersey_number |-> j,
                               height |-> h, weight |-> w])
        \/ \E f \in {Nil, Some(<<"P">>), Some(<<" ">>)} :
              probe = Pending("validateUpdatePlayerRequest",
                              [NoPlayerPatch EXCEPT !.first_name = f, !.jersey_number = j,
                                                    !.height = h, !.weight = w])

DrawGame ==
    \/ \E h \in {0, 1, 2}, se \in {<<>>, <<" ">>, <<"2","4">>}, w \in Inputs("week"),
          d \in Inputs("date"), st \in Inputs("status"), sc \in Inputs("score") :
          probe = Pending("validateCreateGameRequest",
                          [home_team_id |-> h, away_team_id |-> 2, season |-> se,
                           week |-> w, game_date |-> d, status |-> st,
                           home_score |-> sc, away_score |-> Nil])
    \/ \E h \in {Nil, Some(0), Some(1)},
          w \in {Nil} \cup {Some(n) : n \in Inputs("week")},
          d \in {Nil} \cup {Some(n) : n \in Inputs("date")},
          st \in {Nil} \cup {Some(x) : x \in Inputs("status") \ {<<>>}},
          sc \in Inputs("score") :
          probe = Pending("validateUpdateGameRequest",
                          [NoGamePatch EXCEPT !.home_team_id = h, !.week = w,
                                              !.game_date = d, !.status = st,
                                              !.home_score = sc])

InitValidate ==
    /\ teams = {}
    /\ players = {}
    /\ games = {}
    /\ stats = {}
    /\ nextId = [team |-> 1, player |-> 1, game |-> 1, stats |-> 1]
    /\ now = 0
    /\ last = NoCall
    /\ scope = "validators"
    /\ inflight = [c \in Clients |-> NoRequest]
    /\ (DrawStats \/ DrawPlayer \/ DrawPlayerNames \/ DrawGame \/ DrawTeam)

Applied(f, e) ==
    /\ probe.fn = f
    /\ ~probe.done
    /\ probe' = [probe EXCEPT !.done = TRUE, !.err = e]
    /\ UNCHANGED <<teams, players, games, stats, nextId, now, last, scope, inflight>>

ApplyValidateCreateTeam ==
    Applied("validateCreateTeamRequest", validateCreateTeamRequest(probe.in))

ApplyValidateUpdateTeam ==
    Applied("validateUpdateTeamRequest", validateUpdateTeamRequest(probe.in))

ApplyValidateCreatePlayerStats ==
    Applied("validateCreatePlayerStatsRequest", validateCreatePlayerStatsRequest(probe.in))

ApplyValidateUpdatePlayerStats ==
    Applied("validateUpdatePlayerStatsRequest", validateUpdatePlayerStatsRequest(probe.in))

ApplyValidateCreatePlayer ==
    Applied("validateCreatePlayerRequest", validateCreatePlayerRequest(probe.in))

ApplyValidateUpdatePlayer ==
    Applied("validateUpdatePlayerRequest", validateUpdatePlayerRequest(probe.in))

ApplyValidateCreateGame ==
    Applied("validateCreateGameRequest", validateCreateGameRequest(probe.in))

ApplyValidateUpdateGame ==
    Applied("validateUpdateGameRequest", validateUpdateGameRequest(probe.in))

NextValidate ==
    \/ ApplyValidateCreateTeam
    \/ ApplyValidateUpdateTeam
    \/ ApplyValidateCreatePlayerStats
    \/ ApplyValidateUpdatePlayerStats
    \/ ApplyValidateCreatePlayer
    \/ ApplyValidateUpdatePlayer
    \/ ApplyValidateCreateGame
    \/ ApplyValidateUpdateGame

SpecValidate == InitValidate /\ [][NextValidate]_vars

----------------------------------------------------------------------------
(* Games and the clock: a run that creates the two teams of a game and    *)
(* then creates and updates games whose dates lie at and around the ends  *)
(* of the window that validation allows at the time of the call.          *)

DateInputsAt(t) ==
    {ZeroTime, t - OneYear, t + 2 * OneYear}
    \cup {t - OneYear - m : m \in 1..Margin}
    \cup {t + 2 * OneYear + m : m \in 1..Margin}

InitDates ==
    /\ teams = {}
    /\ players = {}
    /\ games = {}
    /\ stats = {}
    /\ nextId = [team |-> 1, player |-> 1, game |-> 1, stats |-> 1]
    /\ now = 0
    /\ last = NoCall
    /\ probe = NoProbe
    /\ inflight = [c \in Clients |-> NoRequest]
    /\ scope = "dates"

CallCreateGameDated ==
    /\ Idle
    /\ \E d \in DateInputsAt(now) :
          CreateGame([GameReq(1, 2, 1, <<>>, Nil) EXCEPT !.game_date = d])

CallUpdateGameDated ==
    /\ Idle
    /\ \E id \in GameIds \ {0} :
          \/ UpdateGame(id, [NoGamePatch EXCEPT !.status = Some(Completed)])
          \/ \E d \in DateInputsAt(now) :
                UpdateGame(id, [NoGamePatch EXCEPT !.game_date = Some(d)])

NextDates ==
    \/ Tick
    \/ Return
    \/ CallCreateTeam
    \/ CallCreateGameDated
    \/ CallUpdateGameDated

SpecGameDates == InitDates /\ [][NextDates]_vars

----------------------------------------------------------------------------
(* Concurrent requests.  The server runs each request on its own          *)
(* goroutine, the services hold no lock and open no transaction, so the   *)
(* statements of two requests interleave.  A request first makes its      *)
(* checks and reads (validation, existence probes, the roster scan, the   *)
(* read of the row to update) and later its one write; each statement is  *)
(* atomic, and the steps of the other client may fall in between.  The    *)
(* run starts with the creation of one team; the players are created by  *)
(* the concurrent requests themselves.                                    *)

InitRace ==
    /\ teams = {}
    /\ players = {}
    /\ games = {}
    /\ stats = {}
    /\ nextId = [team |-> 1, player |-> 1, game |-> 1, stats |-> 1]
    /\ now = 0
    /\ last = NoCall
    /\ probe = NoProbe
    /\ scope = "race"
    /\ inflight = [c \in Clients |-> NoRequest]

(* the client has read the response *)
Receive(c) ==
    /\ inflight[c].pc = "done"
    /\ inflight' = [inflight EXCEPT ![c] = NoRequest]
    /\ UNCHANGED <<teams, players, games, stats, nextId, now, last, probe, scope>>

BeginCreatePlayer(c) ==
    /\ inflight[c].op = "none"
    /\ \E req \in { PlayerReq(1, <<"P">>, Some(7)), PlayerReq(1, <<"R">>, Some(7)) } :
          LET verr   == validateCreatePlayerRequest(req)
              player == [id |-> 0, team_id |-> req.team_id,
                         first_name |-> TrimSpace(req.first_name),
                         last_name |-> TrimSpace(req.last_name),
                         position |-> TrimSpace(req.position),
                         jersey_number |-> req.jersey_number,
                         height |-> req.height, weight |-> req.weight,
                         created_at |-> 0, updated_at |-> 0]
              call   == [NoRequest EXCEPT !.op = "CreatePlayer", !.req = req]
              err    == IF IsErr(verr) THEN Wrap("validation failed: ", verr)
                        ELSE IF ~teamRepoExists(req.team_id)
                        THEN Errorf("team with ID %d not found", <<req.team_id>>)
                        ELSE IF NotNil(req.jersey_number) /\ jerseyTakenOnCreate(req)
                        THEN JerseyTaken(Deref(req.jersey_number))
                        ELSE NoErr
          IN  inflight' = [inflight EXCEPT ![c] =
                             IF IsErr(err)
                             THEN [call EXCEPT !.pc = "done", !.err = err]
                             ELSE [call EXCEPT !.pc = "checked", !.row = Some(player)]]
    /\ UNCHANGED <<teams, players, games, stats, nextId, now, last, probe, scope>>

FinishCreatePlayer(c) ==
    /\ inflight[c].op = "CreatePlayer"
    /\ inflight[c].pc = "checked"
    /\ LET r == playerRepoCreate(Deref(inflight[c].row))
       IN  IF IsErr(r.err)
           THEN /\ inflight' = [inflight EXCEPT ![c].pc = "done", ![c].row = Nil,
                                   ![c].err = Wrap("failed to create player: ", r.err)]
                /\ UNCHANGED <<players, nextId>>
           ELSE /\ nextId.player <= MaxPlayers
                /\ players' = players \cup {Deref(r.val)}
                /\ nextId' = [nextId EXCEPT !.player = @ + 1]
                /\ inflight' = [inflight EXCEPT ![c].pc = "done", ![c].row = r.val]
    /\ UNCHANGED <<teams, games, stats, now, last, probe, scope>>

BeginUpdatePlayer(c) ==
    /\ inflight[c].op = "none"
    /\ \E id \in PlayerIds \ {0},
          req \in { [NoPlayerPatch EXCEPT !.height = Some(MaxHeight)],
                    [NoPlayerPatch EXCEPT !.weight = Some(MinWeight)] } :
          LET verr   == validateUpdatePlayerRequest(req)
              g      == playerRepoGetByID(id)
              old    == Deref(g.val)
              player == [old EXCEPT
                           !.first_name = IF NotNil(req.first_name)
                                          THEN TrimSpace(Deref(req.first_name)) ELSE @,
                           !.last_name = IF NotNil(req.last_name)
                                         THEN TrimSpace(Deref(req.last_name)) ELSE @,
                           !.position = IF NotNil(req.position)
                                        THEN TrimSpace(Deref(req.position)) ELSE @,
                           !.jersey_number = IF NotNil(req.jersey_number)
                                             THEN req.jersey_number ELSE @,
                           !.height = IF NotNil(req.height) THEN req.height ELSE @,
                           !.weight = IF NotNil(req.weight) THEN req.weight ELSE @]
              call   == [NoRequest EXCEPT !.op = "UpdatePlayer", !.id = id, !.req = req]
              err    == IF id <= 0 THEN Errorf("invalid player ID: %d", <<id>>)
                        ELSE IF IsErr(verr) THEN Wrap("validation failed: ", verr)
                        ELSE IF IsErr(g.err) THEN Wrap("failed to get player: ", g.err)
                        ELSE IF NotNil(req.jersey_number)
                                /\ jerseyTakenOnUpdate(id, old.team_id, req)
                        THEN JerseyTaken(Deref(req.jersey_number))
                        ELSE NoErr
          IN  inflight' = [inflight EXCEPT ![c] =
                             IF IsErr(err)
                             THEN [call EXCEPT !.pc = "done", !.err = err]
                             ELSE [call EXCEPT !.pc = "checked", !.row = Some(player)]]
    /\ UNCHANGED <<teams, players, games, stats, nextId, now, last, probe, scope>>

FinishUpdatePlayer(c) ==
    /\ inflight[c].op = "UpdatePlayer"
    /\ inflight[c].pc = "checked"
    /\ LET r == playerRepoUpdate(Deref(inflight[c].row))
       IN  IF IsErr(r.err)
           THEN /\ inflight' = [inflight EXCEPT ![c].pc = "done", ![c].row = Nil,
                                   ![c].err = Wrap("failed to update player: ", r.err)]
                /\ UNCHANGED players
           ELSE /\ players' = {p \in players : p.id # inflight[c].id} \cup {Deref(r.val)}
                /\ inflight' = [inflight EXCEPT ![c].pc = "done", ![c].row = r.ret]
    /\ UNCHANGED <<teams, games, stats, nextId, now, last, probe, scope>>

BeginDeletePlayer(c) ==
    /\ inflight[c].op = "none"
    /\ \E id \in PlayerIds \ {0} :
          LET call == [NoRequest EXCEPT !.op = "DeletePlayer", !.id = id]
              err  == IF id <= 0 THEN Errorf("invalid player ID: %d", <<id>>)
                      ELSE IF ~playerRepoExists(id)
                      THEN Errorf("player with ID %d not found", <<id>>)
                      ELSE NoErr
          IN  inflight' = [inflight EXCEPT ![c] =
                             IF IsErr(err)
                             THEN [call EXCEPT !.pc = "done", !.err = err]
                             ELSE [call EXCEPT !.pc = "checked"]]
    /\ UNCHANGED <<teams, players, games, stats, nextId, now, last, probe, scope>>

FinishDeletePlayer(c) ==
    /\ inflight[c].op = "DeletePlayer"
    /\ inflight[c].pc = "checked"
    /\ LET derr == playerRepoDelete(inflight[c].id)
       IN  IF IsErr(derr)
           THEN /\ inflight' = [inflight EXCEPT ![c].pc = "done",
                                   ![c].err = Wrap("failed to delete player: ", derr)]
                /\ UNCHANGED players
           ELSE /\ players' = {p \in players : p.id # inflight[c].id}
                /\ inflight' = [inflight EXCEPT ![c].pc = "done"]
    /\ UNCHANGED <<teams, games, stats, nextId, now, last, probe, scope>>

BeginCreatePlayerStats(c) ==
    /\ inflight[c].op = "none"
    /\ \E req \in { StatsReq(1, 1, Passing(Some(35), Some(28))),
                     StatsReq(1, 1, NoCounters) } :
          LET verr == validateCreatePlayerStatsRequest(req)
              st   == [id |-> 0, player_id |-> req.player_id, game_id |-> req.game_id,
                       counters |-> req.counters, created_at |-> 0, updated_at |-> 0]
              call == [NoRequest EXCEPT !.op = "CreatePlayerStats", !.req = req]
              err  == IF IsErr(verr) THEN Wrap("validation failed: ", verr)
                      ELSE IF ~playerRepoExists(req.player_id)
                      THEN Errorf("player with ID %d not found", <<req.player_id>>)
                      ELSE IF ExistsByPlayerAndGame(req.player_id, req.game_id)
                      THEN StatsExist(req.player_id, req.game_id)
                      ELSE NoErr
          IN  inflight' = [inflight EXCEPT ![c] =
                             IF IsErr(err)
                             THEN [call EXCEPT !.pc = "done", !.err = err]
                             ELSE [call EXCEPT !.pc = "checked", !.row = Some(st)]]
    /\ UNCHANGED <<teams, players, games, stats, nextId, now, last, probe, scope>>

FinishCreatePlayerStats(c) ==
    /\ inflight[c].op = "CreatePlayerStats"
    /\ inflight[c].pc = "checked"
    /\ LET r == statsRepoCreate(Deref(inflight[c].row))
       IN  IF IsErr(r.err)
           THEN /\ inflight' = [inflight EXCEPT ![c].pc = "done", ![c].row = Nil,
                                   ![c].err = Wrap("failed to create player stats: ", r.err)]
                /\ UNCHANGED <<stats, nextId>>
           ELSE /\ nextId.stats <= MaxStats + 1
                /\ stats' = stats \cup {Deref(r.val)}
                /\ nextId' = [nextId EXCEPT !.stats = @ + 1]
                /\ inflight' = [inflight EXCEPT ![c].pc = "done", ![c].row = r.val]
    /\ UNCHANGED <<teams, players, games, now, last, probe, scope>>

NextRace ==
    \/ Return
    \/ teams = {} /\ CallCreateTeam
    \/ Idle /\ \E c \in Clients : Receive(c)
    \/ Idle /\ \E c \in Clients : BeginCreatePlayer(c)
    \/ Idle /\ \E c \in Clients : FinishCreatePlayer(c)
    \/ Idle /\ \E c \in Clients : BeginUpdatePlayer(c)
    \/ Idle /\ \E c \in Clients : FinishUpdatePlayer(c)
    \/ Idle /\ \E c \in Clients : BeginDeletePlayer(c)
    \/ Idle /\ \E c \in Clients : FinishDeletePlayer(c)
    \/ Idle /\ \E c \in Clients : BeginCreatePlayerStats(c)
    \/ Idle /\ \E c \in Clients : FinishCreatePlayerStats(c)

SpecRace == InitRace /\ [][NextRace]_vars

----------------------------------------------------------------------------
(* Handlers: the HTTP status a handler writes for what its service call   *)
(* returned.  The game handlers look for phrases in the text of the       *)
(* error; TextsWith(p) is the set of format strings and wrapping prefixes *)
(* of the services and repositories in which phrase p occurs.             *)

TextsWith(phrase) ==
    CASE phrase = "not found" ->
           { "team with ID %d not found", "player with ID %d not found",
             "game with ID %d not found", "player stats with ID %d not found",
             "home team with ID %d not found", "away team with ID %d not found" }
      [] phrase = "validation failed" -> { "validation failed: " }
      [] phrase = "cannot be the same" -> { "home team and away team cannot be the same" }

Contains(e, phrase) ==
    \/ e.msg \in TextsWith(phrase)
    \/ \E i \in 1..Len(e.wrap) : e.wrap[i] \in TextsWith(phrase)

TeamHandlerStatus(c) ==
    CASE c.op = "CreateTeam" -> IF IsErr(c.err) THEN 400 ELSE 201
      [] c.op = "GetTeam"    -> IF IsErr(c.err) THEN 404 ELSE 200
      [] c.op = "UpdateTeam" -> IF IsErr(c.err) THEN 400 ELSE 200
      [] c.op = "DeleteTeam" -> IF IsErr(c.err) THEN 404 ELSE 204

PlayerHandlerStatus(c) ==
    CASE c.op = "CreatePlayer" -> IF IsErr(c.err) THEN 400 ELSE 201
      [] c.op = "GetPlayer"    -> IF IsErr(c.err) THEN 404 ELSE 200
      [] c.op = "UpdatePlayer" -> IF IsErr(c.err) THEN 400 ELSE 200
      [] c.op = "DeletePlayer" -> IF IsErr(c.err) THEN 404 ELSE 204

GameHandlerStatus(c) ==
    CASE c.op = "GetGameByID" ->
           IF ~IsErr(c.err) THEN 200
           ELSE IF Contains(c.err, "not found") THEN 404 ELSE 500
      [] c.op = "CreateGame" ->
           IF ~IsErr(c.err) THEN 201
           ELSE IF Contains(c.err, "validation failed")
                \/ Contains(c.err, "not found")
                \/ Contains(c.err, "cannot be the same")
           THEN 400 ELSE 500
      [] c.op = "UpdateGame" ->
           IF ~IsErr(c.err) THEN 200
           ELSE IF Contains(c.err, "validation failed")
                \/ Contains(c.err, "not found")
                \/ Contains(c.err, "cannot be the same")
           THEN 400 ELSE 500
      [] c.op = "DeleteGame" ->
           IF ~IsErr(c.err) THEN 204
           ELSE IF Contains(c.err, "not found") THEN 404 ELSE 500

ResponseStatus(c) ==
    CASE c.op \in {"CreateTeam", "GetTeam", "UpdateTeam", "DeleteTeam"} ->
           TeamHandlerStatus(c)
      [] c.op \in {"CreatePlayer", "GetPlayer", "UpdatePlayer", "DeletePlayer"} ->
           PlayerHandlerStatus(c)
      [] c.op \in {"CreateGame", "GetGameByID", "UpdateGame", "DeleteGame"} ->
           GameHandlerStatus(c)

----------------------------------------------------------------------------
(* Claims.  A call step is a step taken from an idle client: the unprimed  *)
(* variables are the store the call found, last' is the call and what it   *)
(* returned, the primed store is what it left.                             *)

(* C1: the store holds at most one stats row per (player_id, game_id)      *)
(* pair.  A CreatePlayerStats for a pair that already has a row is         *)
(* rejected and persists nothing, and the error is the conflict 'player    *)
(* stats already exist' whenever the request reaches the pair probe (it    *)
(* passes validation and its player exists).  The first create for a pair  *)
(* of an existing player with attempts 35 and completions 28 succeeds and  *)
(* stores the row.                                                         *)
C1_OneRowPerPlayerAndGame ==
    [][ /\ \A x, y \in stats' :
              (x.player_id = y.player_id /\ x.game_id = y.game_id) => x = y
        /\ (Idle /\ last'.op = "CreatePlayerStats") =>
              LET req     == last'.req
                  held    == \E x \in stats : /\ x.player_id = req.player_id
                                              /\ x.game_id = req.game_id
                  present == \E p \in players : p.id = req.player_id
              IN  /\ held => (IsErr(last'.err) /\ stats' = stats)
                  /\ (held /\ present /\ ~IsErr(validateCreatePlayerStatsRequest(req)))
                        => last'.err = Errorf("player stats already exist for player %d in game %d",
                                              <<req.player_id, req.game_id>>)
                  /\ (~held /\ present /\ req.game_id > 0
                        /\ req.counters = Passing(Some(35), Some(28)))
                        => /\ last'.err = NoErr
                           /\ \E x \in stats' \ stats :
                                 /\ x.player_id = req.player_id
                                 /\ x.game_id = req.game_id
                                 /\ x.counters = req.counters
                                 /\ last'.ret = Some(x)
      ]_vars

C1_Witness ==
    /\ last.op = "CreatePlayerStats"
    /\ last.err = Errorf("player stats already exist for player %d in game %d",
                         <<last.req.player_id, last.req.game_id>>)
    /\ \E x \in stats : x.player_id = last.req.player_id /\ x.game_id = last.req.game_id
    /\ last.req.counters = Passing(Some(35), Some(28))

(* The stats validators applied to a request: the probe holds the request  *)
(* and, once done, the error the validator returned.                       *)
StatsProbed ==
    /\ probe.done
    /\ probe.fn \in {"validateCreatePlayerStatsRequest", "validateUpdatePlayerStatsRequest"}

MadeAttempted ==
    { <<"passing_completions", "passing_attempts",
        "passing completions cannot exceed passing attempts">>,
      <<"field_goals_made", "field_goals_attempted",
        "field goals made cannot exceed field goals attempted">>,
      <<"extra_points_made", "extra_points_attempted",
        "extra points made cannot exceed extra points attempted">>,
      <<"fumbles_lost", "fumbles", "fumbles lost cannot exceed total fumbles">> }

TacklesMessage == "total tackles must equal solo tackles plus assisted tackles"

Violates(c, r) == c[r[1]] # <<>> /\ c[r[2]] # <<>> /\ c[r[1]][1] > c[r[2]][1]

TacklesSupplied(c) ==
    c["tackles"] # <<>> /\ c["solo_tackles"] # <<>> /\ c["assisted_tackles"] # <<>>

TacklesAddUp(c) == c["tackles"][1] = c["solo_tackles"][1] + c["assisted_tackles"][1]

OtherwiseValid(c) ==
    /\ \E f \in StatFields : c[f] # <<>>
    /\ \A f \in StatFields : c[f] # <<>> => c[f][1] >= 0

(* C2: in a create or update stats request, each made/attempted rule       *)
(* rejects the request exactly when both of its operands are present and   *)
(* made exceeds attempted: the rule's error is returned only then, and a   *)
(* request in that case is rejected (with this rule's error when no rule   *)
(* checked before it fails).  A rule with an operand absent is skipped:    *)
(* a request with at least one counter, no negative counter, no rule with  *)
(* both operands present and made above attempted, and tackles adding up   *)
(* when all three are supplied, is accepted.                               *)
C2_MadeAtMostAttempted ==
    StatsProbed =>
        LET c == probe.in.counters
        IN  /\ \A r \in MadeAttempted :
                  /\ probe.err.msg = r[3] => Violates(c, r)
                  /\ Violates(c, r) => IsErr(probe.err)
                  /\ ( /\ Violates(c, r)
                       /\ \A q \in MadeAttempted \ {r} : ~Violates(c, q)
                       /\ TacklesSupplied(c) => TacklesAddUp(c) )
                        => probe.err = Errorf(r[3], <<>>)
            /\ ( /\ OtherwiseValid(c)
                 /\ \A r \in MadeAttempted : ~Violates(c, r)
                 /\ TacklesSupplied(c) => TacklesAddUp(c) )
                  => probe.err = NoErr

C2_Witness ==
    /\ StatsProbed
    /\ probe.fn = "validateUpdatePlayerStatsRequest"
    /\ probe.in.counters["fumbles_lost"] = Some(2)
    /\ probe.in.counters["fumbles"] = Some(1)
    /\ probe.err = Errorf("fumbles lost cannot exceed total fumbles", <<>>)

(* C3: in a create or update stats request that supplies tackles,          *)
(* solo_tackles and assisted_tackles, the request is rejected when tackles *)
(* differs from solo_tackles + assisted_tackles, whether smaller or        *)
(* larger (with the tackles error unless the passing rule, checked first,  *)
(* fails), and accepted when they are equal and the other fields are       *)
(* valid; the tackles error is returned in no other case.                  *)
C3_TacklesExact ==
    StatsProbed =>
        LET c == probe.in.counters
        IN  /\ probe.err.msg = TacklesMessage => (TacklesSupplied(c) /\ ~TacklesAddUp(c))
            /\ (TacklesSupplied(c) /\ ~TacklesAddUp(c)) =>
                  /\ IsErr(probe.err)
                  /\ ~Violates(c, <<"passing_completions", "passing_attempts">>)
                        => probe.err = Errorf(TacklesMessage, <<>>)
            /\ ( /\ TacklesSupplied(c) /\ TacklesAddUp(c)
                 /\ OtherwiseValid(c)
                 /\ \A r \in MadeAttempted : ~Violates(c, r) )
                  => probe.err = NoErr

C3_Witness ==
    /\ StatsProbed
    /\ probe.fn = "validateCreatePlayerStatsRequest"
    /\ probe.in.counters["tackles"] = Some(1)
    /\ probe.in.counters["solo_tackles"] = Some(1)
    /\ probe.in.counters["assisted_tackles"] = Some(1)
    /\ probe.err = Errorf(TacklesMessage, <<>>)

JerseyMessage == "jersey number %d is already taken by another player on this team"

(* another player than id, on team teamID, holds jersey number n *)
HeldByOther(id, teamID, n) ==
    \E q \in players : q.id # id /\ q.team_id = teamID /\ q.jersey_number = <<n>>

(* C4: the jersey conflict is returned only by a CreatePlayer or           *)
(* UpdatePlayer that supplies a jersey number held by another player (a    *)
(* different id) on the same team.  A CreatePlayer that supplies one,      *)
(* passes validation and names an existing team, and an UpdatePlayer that  *)
(* supplies one, passes validation and finds its player, is rejected with  *)
(* the conflict when another player on the team holds the number and       *)
(* succeeds otherwise, storing the number: the same number on another      *)
(* team, the player's own number, and players without a number never       *)
(* collide.                                                                *)
C4_JerseyConflict ==
    [][ /\ (Idle /\ last'.op = "CreatePlayer") =>
              LET req   == last'.req
                  taken == /\ req.jersey_number # <<>>
                           /\ HeldByOther(0, req.team_id, req.jersey_number[1])
              IN  /\ last'.err.msg = JerseyMessage => taken
                  /\ ( /\ req.jersey_number # <<>>
                       /\ ~IsErr(validateCreatePlayerRequest(req))
                       /\ \E t \in teams : t.id = req.team_id ) =>
                        IF taken
                        THEN /\ last'.err = Errorf(JerseyMessage, <<req.jersey_number[1]>>)
                             /\ players' = players
                        ELSE /\ last'.err = NoErr
                             /\ \E x \in players' \ players :
                                   /\ x.team_id = req.team_id
                                   /\ x.jersey_number = req.jersey_number
        /\ (Idle /\ last'.op = "UpdatePlayer") =>
              LET req   == last'.req
                  id    == last'.id
                  found == \E x \in players :
                              x.id = id /\ \E t \in teams : t.id = x.team_id
                  cur   == CHOOSE x \in players : x.id = id
                  taken == /\ req.jersey_number # <<>>
                           /\ \E x \in players :
                                 /\ x.id = id
                                 /\ HeldByOther(id, x.team_id, req.jersey_number[1])
              IN  /\ last'.err.msg = JerseyMessage => taken
                  /\ ( /\ req.jersey_number # <<>>
                       /\ id > 0
                       /\ ~IsErr(validateUpdatePlayerRequest(req))
                       /\ found ) =>
                        IF taken
                        THEN /\ last'.err = Errorf(JerseyMessage, <<req.jersey_number[1]>>)
                             /\ players' = players
                        ELSE /\ last'.err = NoErr
                             /\ \E x \in players' :
                                   /\ x.id = id
                                   /\ x.team_id = cur.team_id
                                   /\ x.jersey_number = req.jersey_number
      ]_vars

C4_Witness ==
    /\ last.op = "CreatePlayer"
    /\ last.err = NoErr
    /\ last.req.jersey_number # <<>>
    /\ \E p, q \in players :
          /\ Some(q) = last.ret
          /\ p.id # q.id
          /\ p.team_id # q.team_id
          /\ p.jersey_number = q.jersey_number
          /\ q.jersey_number = last.req.jersey_number
          /\ \E t, u \in teams : t.id = p.team_id /\ u.id = q.team_id

(* C5: no two distinct stored players with the same team_id hold the same  *)
(* non-null jersey number.                                                 *)
C5_JerseyUniqueWithinTeam ==
    \A p, q \in players :
        (p.id # q.id /\ p.team_id = q.team_id /\ p.jersey_number # <<>>)
            => p.jersey_number # q.jersey_number

C5_Witness ==
    /\ last.op = "UpdatePlayer"
    /\ last.err = Errorf(JerseyMessage, <<7>>)
    /\ \E p, q \in players :
          /\ p.id # q.id
          /\ p.team_id = q.team_id
          /\ p.jersey_number = <<7>>
          /\ q.id = last.id
          /\ q.first_name # p.first_name

SameTeamsMessage == "home team and away team cannot be the same"

(* C6: every stored game has home_team_id # away_team_id.  A CreateGame    *)
(* with equal ids is rejected and stores nothing whatever its other        *)
(* fields are, with the same-teams error once validation and the team      *)
(* probes pass.  An UpdateGame of a stored game whose merged record        *)
(* (stored side where the patch has none, patch side otherwise) has equal  *)
(* ids is rejected and changes nothing, also when the patch sets one side  *)
(* only, with the same-teams error once the game is fetched and            *)
(* validation and the team probes pass.                                    *)
C6_HomeDiffersFromAway ==
    [][ /\ \A g \in games' : g.home_team_id # g.away_team_id
        /\ (Idle /\ last'.op = "CreateGame"
                 /\ last'.req.home_team_id = last'.req.away_team_id) =>
              /\ IsErr(last'.err)
              /\ games' = games
              /\ ( /\ ~IsErr(validateCreateGameRequest(last'.req))
                   /\ \E t \in teams : t.id = last'.req.home_team_id )
                    => last'.err = Errorf(SameTeamsMessage, <<>>)
        /\ (Idle /\ last'.op = "UpdateGame") =>
              \A cur \in games :
                  LET req  == last'.req
                      home == IF req.home_team_id # <<>> THEN req.home_team_id[1]
                              ELSE cur.home_team_id
                      away == IF req.away_team_id # <<>> THEN req.away_team_id[1]
                              ELSE cur.away_team_id
                  IN  (cur.id = last'.id /\ home = away) =>
                          /\ IsErr(last'.err)
                          /\ games' = games
                          /\ ( /\ \E t \in teams : t.id = cur.home_team_id
                               /\ \E t \in teams : t.id = cur.away_team_id
                               /\ ~IsErr(validateUpdateGameRequest(req))
                               /\ \E t \in teams : t.id = home )
                                => last'.err = Errorf(SameTeamsMessage, <<>>)
      ]_vars

C6_Witness ==
    /\ last.op = "UpdateGame"
    /\ last.err = Errorf(SameTeamsMessage, <<>>)
    /\ last.req.home_team_id # <<>>
    /\ last.req.away_team_id = <<>>
    /\ \E g \in games :
          /\ g.id = last.id
          /\ g.away_team_id = last.req.home_team_id[1]
          /\ g.home_team_id # g.away_team_id

NoFieldsProvided ==
    [msg |-> "at least one field must be provided for update", args |-> <<>>,
     wrap |-> <<"validation failed: ">>]

(* a step that calls update operation o with the empty patch on the id of  *)
(* a row of table rows                                                     *)
EmptyPatchOn(o, empty, rows) ==
    /\ Idle
    /\ last'.op = o
    /\ last'.req = empty
    /\ \E x \in rows : x.id = last'.id

(* C7: for every entity family, an update of a stored entity whose patch   *)
(* has no field set is rejected with the error 'at least one field must    *)
(* be provided for update' and leaves the store, the entity's updated_at   *)
(* included, unchanged.                                                    *)
C7_EmptyPatchRejected ==
    [][ ( \/ EmptyPatchOn("UpdateTeam", NoTeamPatch, teams)
          \/ EmptyPatchOn("UpdatePlayer", NoPlayerPatch, players)
          \/ EmptyPatchOn("UpdateGame", NoGamePatch, games)
          \/ EmptyPatchOn("UpdatePlayerStats", [counters |-> NoCounters], stats) )
            => (last'.err = NoFieldsProvided /\ store' = store)
      ]_vars

(* The four entity families: the create, read and delete operation of     *)
(* each, its table and its not-found message.                              *)
Families ==
    { [key |-> "team", create |-> "CreateTeam", get |-> "GetTeam",
       del |-> "DeleteTeam", missing |-> "team with ID %d not found"],
      [key |-> "player", create |-> "CreatePlayer", get |-> "GetPlayer",
       del |-> "DeletePlayer", missing |-> "player with ID %d not found"],
      [key |-> "game", create |-> "CreateGame", get |-> "GetGameByID",
       del |-> "DeleteGame", missing |-> "game with ID %d not found"],
      [key |-> "stats", create |-> "CreatePlayerStats", get |-> "GetPlayerStats",
       del |-> "DeletePlayerStats", missing |-> "player stats with ID %d not found"] }

StoredIds(k) ==
    CASE k = "team" -> {x.id : x \in teams}
      [] k = "player" -> {x.id : x \in players}
      [] k = "game" -> {x.id : x \in games}
      [] k = "stats" -> {x.id : x \in stats}

(* C8: for every entity family, a read by id right after a successful     *)
(* create returns the value the create returned: the same id, fields,     *)
(* created_at and updated_at.                                              *)
C8_ReadAfterCreate ==
    [][ \A f \in Families :
          ( /\ last.op = f.create
            /\ last.err = NoErr
            /\ last'.op = f.get
            /\ last'.id = last.ret[1].id )
              => (last'.err = NoErr /\ last'.ret = last.ret)
      ]_vars

Reads == {"GetTeam", "GetPlayer", "GetGameByID", "GetPlayerStats"}

(* C9: for every entity family, a read of id right after a successful     *)
(* Delete(id) is not found, and so is every later read of an id that was  *)
(* assigned and whose row was deleted (ids are never assigned twice); a   *)
(* successful delete leaves no row with that id; and Delete(id) of a      *)
(* positive id that has no row returns the not-found error naming the     *)
(* entity type and the id, and leaves the store unchanged.                 *)
C9_DeleteThenNotFound ==
    [][ \A f \in Families :
          /\ ( /\ last.op = f.del
               /\ last.err = NoErr
               /\ last'.op = f.get
               /\ last'.id = last.id )
                 => (last'.err.msg = f.missing /\ last'.err.args = <<last.id>>)
          /\ ( /\ last.op \notin Reads
               /\ last'.op = f.get
               /\ last'.id \in 1..(nextId[f.key] - 1)
               /\ last'.id \notin StoredIds(f.key) )
                 => (last'.err.msg = f.missing /\ last'.err.args = <<last'.id>>)
          /\ (Idle /\ last'.op = f.del /\ last'.err = NoErr)
                 => (last'.id \in StoredIds(f.key) /\ last'.id \notin StoredIds(f.key)')
          /\ (Idle /\ last'.op = f.del /\ last'.id > 0 /\ last'.id \notin StoredIds(f.key))
                 => (last'.err = Errorf(f.missing, <<last'.id>>) /\ store' = store)
      ]_vars

C9_Witness ==
    /\ last.op = "GetPlayerStats"
    /\ last.id \in 1..(nextId.stats - 1)
    /\ last.id \notin StoredIds("stats")
    /\ last.err.msg = "player stats with ID %d not found"
    /\ \E p \in players : p.id = 1 /\ \E t \in teams : t.id = p.team_id

JerseyRangeMessage == "jersey number must be between 0 and 99"

WeekRangeMessage == "week must be between 1 and 22, got %d"

(* the fields of the probed player request other than the jersey number   *)
(* are valid: a non-blank first name, no height and no weight              *)
PlayerProbeOtherwiseValid ==
    /\ probe.in.height = <<>>
    /\ probe.in.weight = <<>>
    /\ IF probe.fn = "validateCreatePlayerRequest"
       THEN probe.in.first_name = <<"P">>
       ELSE probe.in.first_name \in {<<>>, <<<<"P">>>>}

(* the fields of the probed game request other than the week are valid *)
GameProbeOtherwiseValid ==
    /\ probe.in.home_score = <<>>
    /\ IF probe.fn = "validateCreateGameRequest"
       THEN /\ probe.in.home_team_id > 0
            /\ probe.in.season # <<>>
            /\ probe.in.game_date = 0
            /\ probe.in.status \in {<<>>, Scheduled, Cancelled}
       ELSE /\ probe.in.home_team_id \in {<<>>, <<1>>}
            /\ probe.in.game_date \in {<<>>, <<0>>}
            /\ probe.in.status \in {<<>>, <<Scheduled>>, <<Cancelled>>}

(* C10: create and update player validation return the jersey range error *)
(* only for a supplied jersey number outside 0..99, reject every such      *)
(* number (-1 and 100 included) and accept every supplied number in 0..99  *)
(* (0 and 99 included) when the other fields are valid; create and update  *)
(* game validation do the same for the week and 1..22 (1 and 22 accepted,  *)
(* 0 and 23 rejected).                                                     *)
C10_JerseyAndWeekRanges ==
    /\ ( /\ probe.done
         /\ probe.fn \in {"validateCreatePlayerRequest", "validateUpdatePlayerRequest"}
         /\ probe.in.jersey_number # <<>> ) =>
            LET n  == probe.in.jersey_number[1]
                ok == 0 <= n /\ n <= 99
            IN  /\ probe.err.msg = JerseyRangeMessage => ~ok
                /\ ~ok => IsErr(probe.err)
                /\ PlayerProbeOtherwiseValid =>
                      probe.err = IF ok THEN NoErr ELSE Errorf(JerseyRangeMessage, <<>>)
    /\ ( /\ probe.done
         /\ \/ probe.fn = "validateCreateGameRequest"
            \/ probe.fn = "validateUpdateGameRequest" /\ probe.in.week # <<>> ) =>
            LET w  == IF probe.fn = "validateCreateGameRequest"
                      THEN probe.in.week ELSE probe.in.week[1]
                ok == 1 <= w /\ w <= 22
            IN  /\ probe.err.msg = WeekRangeMessage => ~ok
                /\ ~ok => IsErr(probe.err)
                /\ GameProbeOtherwiseValid =>
                      probe.err = IF ok THEN NoErr ELSE Errorf(WeekRangeMessage, <<w>>)

C10_Witness ==
    /\ probe.done
    /\ probe.fn = "validateUpdatePlayerRequest"
    /\ probe.in.jersey_number = <<100>>
    /\ PlayerProbeOtherwiseValid
    /\ probe.err = Errorf(JerseyRangeMessage, <<>>)

(* C11: in every reachable state every stored numeric field that is not   *)
(* null lies in its range: a player's jersey number in 0..99, height in   *)
(* 60..90 and weight in 150..400, a game's week in 1..22 and its scores   *)
(* at least 0, and every counter of a stats row at least 0.               *)

Within(o, lo, hi) == o = <<>> \/ (o[1] >= lo /\ o[1] <= hi)

AtLeastZero(o) == o = <<>> \/ o[1] >= 0

C11_StoredNumericInRange ==
    /\ \A p \in players :
          /\ Within(p.jersey_number, 0, 99)
          /\ Within(p.height, 60, 90)
          /\ Within(p.weight, 150, 400)
    /\ \A g \in games :
          /\ g.week >= 1 /\ g.week <= 22
          /\ AtLeastZero(g.home_score)
          /\ AtLeastZero(g.away_score)
    /\ \A x \in stats : \A f \in StatFields : AtLeastZero(x.counters[f])

(* a player stored by a create and changed by an update carries a jersey  *)
(* number, a height and a weight                                          *)
C11_Witness ==
    /\ last.op = "UpdatePlayer"
    /\ last.err = NoErr
    /\ \E p \in players :
          /\ p.id = last.id
          /\ p.jersey_number # <<>> /\ p.height # <<>> /\ p.weight # <<>>

(* C12: every enum field is checked by membership in its allowed set      *)
(* without regard to letter case, on create and on update: a request      *)
(* whose other fields are valid is accepted exactly when its conference   *)
(* is AFC or NFC, its division is North, South, East or West, and its     *)
(* game status is scheduled, in_progress, completed or cancelled, each    *)
(* compared after folding the letters to lower case.                      *)

Folded(s) == [i \in 1..Len(s) |-> ToLower(s[i])]

AllowedConferences == { <<"a","f","c">>, <<"n","f","c">> }

AllowedDivisions ==
    { <<"n","o","r","t","h">>, <<"s","o","u","t","h">>, <<"e","a","s","t">>,
      <<"w","e","s","t">> }

AllowedStatuses ==
    { <<"s","c","h","e","d","u","l","e","d">>, <<"i","n","_","p","r","o","g","r","e","s","s">>,
      <<"c","o","m","p","l","e","t","e","d">>, <<"c","a","n","c","e","l","l","e","d">> }

NonBlank(s) == \E i \in 1..Len(s) : s[i] \notin {" ", "\t", "\n", "\r"}

(* absent from a patch, or a value for which P holds *)
Opt(o, P(_)) == o = <<>> \/ P(o[1])

InConferences(s) == Folded(s) \in AllowedConferences

InDivisions(s) == Folded(s) \in AllowedDivisions

InStatuses(s) == Folded(s) \in AllowedStatuses

TeamEnumsAsStated ==
    /\ ( /\ probe.done
         /\ probe.fn = "validateCreateTeamRequest"
         /\ NonBlank(probe.in.name) /\ NonBlank(probe.in.city) ) =>
            (probe.err = NoErr <=>
               InConferences(probe.in.conference) /\ InDivisions(probe.in.division))
    /\ ( /\ probe.done
         /\ probe.fn = "validateUpdateTeamRequest"
         /\ probe.in.conference # <<>> \/ probe.in.division # <<>>
         /\ Opt(probe.in.name, NonBlank) /\ Opt(probe.in.city, NonBlank) ) =>
            (probe.err = NoErr <=>
               /\ Opt(probe.in.conference, InConferences)
               /\ Opt(probe.in.division, InDivisions))

(* the fields of the probed game request other than the status are valid *)
GameProbeValidButStatus ==
    /\ probe.in.home_score = <<>>
    /\ IF probe.fn = "validateCreateGameRequest"
       THEN /\ probe.in.home_team_id > 0
            /\ probe.in.season # <<>>
            /\ probe.in.week >= 1 /\ probe.in.week <= 22
            /\ probe.in.game_date = now
       ELSE /\ probe.in.home_team_id \in {<<>>, <<1>>}
            /\ probe.in.week = <<>> \/ (probe.in.week[1] >= 1 /\ probe.in.week[1] <= 22)
            /\ probe.in.game_date \in {<<>>, <<now>>}

GameStatusAsStated ==
    /\ ( /\ probe.done
         /\ probe.fn = "validateCreateGameRequest"
         /\ probe.in.status # <<>>
         /\ GameProbeValidButStatus ) =>
            (probe.err = NoErr <=> InStatuses(probe.in.status))
    /\ ( /\ probe.done
         /\ probe.fn = "validateUpdateGameRequest"
         /\ probe.in.status # <<>>
         /\ GameProbeValidButStatus ) =>
            (probe.err = NoErr <=> InStatuses(probe.in.status[1]))

C12_EnumsCaseInsensitive == TeamEnumsAsStated /\ GameStatusAsStated

(* C13: a create request in which a required string field (a team's name, *)
(* city, conference or division, a player's first name, last name or     *)
(* position, a game's season) is empty or holds only white space is      *)
(* rejected, and when its other fields are valid the error is the        *)
(* "... is required" error of one of the blank fields.                   *)

Required ==
    [ validateCreateTeamRequest |->
        << <<"name", "team name is required">>, <<"city", "city is required">>,
           <<"conference", "conference is required">>,
           <<"division", "division is required">> >>,
      validateCreatePlayerRequest |->
        << <<"first_name", "first name is required">>,
           <<"last_name", "last name is required">>,
           <<"position", "position is required">> >>,
      validateCreateGameRequest |->
        << <<"season", "season is required">> >> ]

BlankFields(fn) ==
    {i \in 1..Len(Required[fn]) : ~NonBlank(probe.in[Required[fn][i][1]])}

(* the fields of the probed create request that are not strings are valid *)
NumbersValid ==
    CASE probe.fn = "validateCreatePlayerRequest" ->
           /\ probe.in.team_id > 0 /\ probe.in.jersey_number = <<>>
           /\ probe.in.height = <<>> /\ probe.in.weight = <<>>
      [] probe.fn = "validateCreateGameRequest" ->
           /\ probe.in.home_team_id > 0 /\ probe.in.away_team_id > 0
           /\ probe.in.week >= 1 /\ probe.in.week <= 22
           /\ probe.in.game_date = now
           /\ probe.in.status = <<>> /\ probe.in.home_score = <<>>
      [] OTHER -> TRUE

BlankRejected(fn) ==
    (probe.done /\ probe.fn = fn /\ BlankFields(fn) # {}) =>
        /\ IsErr(probe.err)
        /\ NumbersValid =>
              \E i \in BlankFields(fn) : probe.err = Errorf(Required[fn][i][2], <<>>)

C13_BlankRequiredStringsRejected ==
    /\ BlankRejected("validateCreateTeamRequest")
    /\ BlankRejected("validateCreatePlayerRequest")
    /\ BlankRejected("validateCreateGameRequest")

(* C14: with the clock an integer and a year two of its ticks, a          *)
(* CreateGame, and an UpdateGame of a stored game whose patch supplies    *)
(* game_date, passes validation exactly when                              *)
(* now - 1 year <= game_date <= now + 2 years, both ends included; a      *)
(* date before the window is rejected with the past message and a date    *)
(* after it with the future message, the store unchanged; the zero time   *)
(* is rejected as a missing date instead; an UpdateGame whose patch omits *)
(* game_date is never rejected for the stored date.                       *)

PastMessage == "game date cannot be more than 1 year in the past"

FutureMessage == "game date cannot be more than 2 years in the future"

ValidationFailed(e) == e.wrap # <<>> /\ e.wrap[1] = "validation failed: "

(* the date a game call supplies, if any *)
SuppliedDate(c) == IF c.op = "CreateGame" THEN <<c.req.game_date>> ELSE c.req.game_date

DateRule(zeroTimeIsADate) ==
    ( /\ Idle
      /\ last'.op \in {"CreateGame", "UpdateGame"}
      /\ last'.op = "UpdateGame" => \E g \in games : g.id = last'.id ) =>
        LET d == SuppliedDate(last')
        IN  /\ (d # <<>> /\ (zeroTimeIsADate \/ d[1] # ZeroTime)) =>
                  /\ d[1] < now - OneYear =>
                        /\ last'.err = Wrap("validation failed: ", Errorf(PastMessage, <<>>))
                        /\ UNCHANGED store
                  /\ d[1] > now + 2 * OneYear =>
                        /\ last'.err = Wrap("validation failed: ", Errorf(FutureMessage, <<>>))
                        /\ UNCHANGED store
                  /\ (now - OneYear <= d[1] /\ d[1] <= now + 2 * OneYear) =>
                        ~ValidationFailed(last'.err)
            /\ (d # <<>> /\ d[1] = ZeroTime) =>
                  /\ ValidationFailed(last'.err)
                  /\ UNCHANGED store
            /\ d = <<>> => ~ValidationFailed(last'.err)

C14_GameDateWindow == [][DateRule(FALSE)]_vars

(* the claim as stated, the zero time a date like any other *)
C14_GameDateWindowAsStated == [][DateRule(TRUE)]_vars

(* an update that leaves game_date out succeeds on a game whose stored    *)
(* date has fallen out of the window                                      *)
C14_Witness ==
    /\ last.op = "UpdateGame"
    /\ last.err = NoErr
    /\ last.req.game_date = <<>>
    /\ \E g \in games : g.id = last.id /\ g.game_date < now - OneYear

(* C15: a CreatePlayer whose team_id, and a CreateGame or UpdateGame      *)
(* whose supplied home_team_id or away_team_id, names no stored team when *)
(* the call comes to probe it (the request has passed validation and, for *)
(* an update, the game was found) is rejected with the not-found error    *)
(* that names that team id, and the store is left as it was.              *)

TeamStored(id) == \E t \in teams : t.id = id

(* the call got as far as probing the teams it refers to *)
ReachedProbe(e) ==
    /\ e.msg # "invalid game ID: %d"
    /\ e.wrap = <<>> \/ e.wrap[1] \notin {"validation failed: ", "failed to get game: "}

(* the team ids a game call supplies, home first *)
SuppliedTeams(c) ==
    IF c.op = "CreateGame"
    THEN << <<"home", c.req.home_team_id>>, <<"away", c.req.away_team_id>> >>
    ELSE (IF c.req.home_team_id = <<>> THEN <<>>
          ELSE << <<"home", c.req.home_team_id[1]>> >>)
         \o (IF c.req.away_team_id = <<>> THEN <<>>
             ELSE << <<"away", c.req.away_team_id[1]>> >>)

TeamNotFound(side, id) ==
    Errorf(IF side = "home" THEN "home team with ID %d not found"
           ELSE "away team with ID %d not found", <<id>>)

C15_MissingTeamRejected ==
    [][ /\ ( /\ Idle
             /\ last'.op = "CreatePlayer"
             /\ ReachedProbe(last'.err)
             /\ ~TeamStored(last'.req.team_id) ) =>
                /\ last'.err = Errorf("team with ID %d not found", <<last'.req.team_id>>)
                /\ UNCHANGED store
        /\ ( /\ Idle
             /\ last'.op \in {"CreateGame", "UpdateGame"}
             /\ ReachedProbe(last'.err) ) =>
                LET ts      == SuppliedTeams(last')
                    missing == {i \in 1..Len(ts) : ~TeamStored(ts[i][2])}
                IN  missing # {} =>
                      /\ \E i \in missing : last'.err = TeamNotFound(ts[i][1], ts[i][2])
                      /\ UNCHANGED store
      ]_vars

(* an update of a stored game was refused for an away team not stored *)
C15_Witness ==
    /\ last.op = "UpdateGame"
    /\ \E g \in games : g.id = last.id
    /\ last.req.away_team_id # <<>>
    /\ last.err = TeamNotFound("away", last.req.away_team_id[1])

(* C16: in every reachable state the team_id of every stored player and   *)
(* the home_team_id and away_team_id of every stored game name a stored   *)
(* team.                                                                  *)
C16_TeamReferencesResolve ==
    /\ \A p \in players : TeamStored(p.team_id)
    /\ \A g \in games : TeamStored(g.home_team_id) /\ TeamStored(g.away_team_id)

(* C17: after any sequence of stats creates and updates every stored      *)
(* stats row whose two operands are both set has passing_completions <=   *)
(* passing_attempts, field_goals_made <= field_goals_attempted,           *)
(* extra_points_made <= extra_points_attempted and fumbles_lost <=        *)
(* fumbles, and every row with all three tackle counters set has          *)
(* tackles = solo_tackles + assisted_tackles.                             *)
C17_StoredRowsKeepCrossFieldRules ==
    \A x \in stats :
        /\ \A r \in MadeAttempted : ~Violates(x.counters, r)
        /\ TacklesSupplied(x.counters) => TacklesAddUp(x.counters)

(* C18: an UpdatePlayerStats of a stats row that can be read, whose patch *)
(* sets passing_attempts alone or passing_completions alone to a value    *)
(* that is not negative, succeeds whatever the stored value of the other  *)
(* operand is, and stores the supplied value beside it.                   *)

Readable(id) ==
    \E x \in stats, p \in players :
        x.id = id /\ p.id = x.player_id /\ TeamStored(p.team_id)

(* the one counter the patch sets, or the empty string *)
OnlyCounter(req) ==
    LET set == {f \in StatFields : req.counters[f] # <<>>}
    IN  IF Cardinality(set) = 1 THEN CHOOSE f \in set : TRUE ELSE ""

C18_PatchCheckedAlone ==
    [][ ( /\ Idle
          /\ last'.op = "UpdatePlayerStats"
          /\ Readable(last'.id)
          /\ OnlyCounter(last'.req) \in {"passing_attempts", "passing_completions"}
          /\ last'.req.counters[OnlyCounter(last'.req)][1] >= 0 ) =>
            LET f   == OnlyCounter(last'.req)
                old == CHOOSE x \in stats : x.id = last'.id
            IN  /\ last'.err = NoErr
                /\ \E x \in stats' :
                      /\ x.id = last'.id
                      /\ x.counters =
                            [old.counters EXCEPT ![f] = last'.req.counters[f]]
      ]_vars

(* an update that set passing_attempts alone succeeded and left a row     *)
(* whose completions exceed its attempts                                  *)
C18_Witness ==
    /\ last.op = "UpdatePlayerStats"
    /\ last.err = NoErr
    /\ OnlyCounter(last.req) = "passing_attempts"
    /\ \E x \in stats :
          /\ x.id = last.id
          /\ x.counters["passing_completions"] # <<>>
          /\ x.counters["passing_completions"][1] > x.counters["passing_attempts"][1]

(* C19: whatever the handler, the status it writes for a service error    *)
(* follows from the class of the error: 404 for a not-found error (the    *)
(* target or a referenced entity is missing), and a 4xx status other than *)
(* 404 for an invalid argument, an empty patch or a conflict.             *)

HandledOps ==
    { "CreateTeam", "GetTeam", "UpdateTeam", "DeleteTeam",
      "CreatePlayer", "GetPlayer", "UpdatePlayer", "DeletePlayer",
      "CreateGame", "GetGameByID", "UpdateGame", "DeleteGame" }

NotFoundClass(e) ==
    e.msg \in { "team with ID %d not found", "player with ID %d not found",
                "game with ID %d not found", "home team with ID %d not found",
                "away team with ID %d not found" }

StatusAsStated(c) ==
    IF NotFoundClass(c.err) THEN ResponseStatus(c) = 404
    ELSE ResponseStatus(c) \in 400..499 /\ ResponseStatus(c) # 404

C19_StatusFollowsErrorClass ==
    (last.op \in HandledOps /\ IsErr(last.err)) => StatusAsStated(last)

(* C20: an insert or update that the store refuses for a uniqueness       *)
(* constraint is answered with a client error (a 4xx status).             *)

UniqueRefused(e) ==
    e.msg \in { "UNIQUE constraint failed: teams.name, teams.city",
                "UNIQUE constraint failed: games",
                "UNIQUE constraint failed: players" }

C20_UniqueRefusalIsClientError ==
    (last.op \in HandledOps /\ UniqueRefused(last.err)) =>
        ResponseStatus(last) \in 400..499

(* C21: a create, update or delete checks the identifier first, then the  *)
(* request, and only then calls a repository: given an id <= 0 it returns *)
(* the invalid-id error, and given a positive id (or none) and a request  *)
(* that fails field validation it returns that validation error, whatever *)
(* the tables hold.                                                       *)

Validated(c) ==
    CASE c.op = "CreateTeam" -> validateCreateTeamRequest(c.req)
      [] c.op = "UpdateTeam" -> validateUpdateTeamRequest(c.req)
      [] c.op = "CreatePlayer" -> validateCreatePlayerRequest(c.req)
      [] c.op = "UpdatePlayer" -> validateUpdatePlayerRequest(c.req)
      [] c.op = "CreateGame" -> validateCreateGameRequest(c.req)
      [] c.op = "UpdateGame" -> validateUpdateGameRequest(c.req)
      [] c.op = "CreatePlayerStats" -> validateCreatePlayerStatsRequest(c.req)
      [] c.op = "UpdatePlayerStats" -> validateUpdatePlayerStatsRequest(c.req)
      [] OTHER -> NoErr

InvalidId(c) ==
    CASE c.op \in {"UpdateTeam", "DeleteTeam"} -> Errorf("invalid team ID: %d", <<c.id>>)
      [] c.op \in {"UpdatePlayer", "DeletePlayer"} ->
           Errorf("invalid player ID: %d", <<c.id>>)
      [] c.op \in {"UpdateGame", "DeleteGame"} -> Errorf("invalid game ID: %d", <<c.id>>)
      [] c.op \in {"UpdatePlayerStats", "DeletePlayerStats"} ->
           Errorf("invalid player stats ID: %d", <<c.id>>)

ById ==
    { "UpdateTeam", "DeleteTeam", "UpdatePlayer", "DeletePlayer",
      "UpdateGame", "DeleteGame", "UpdatePlayerStats", "DeletePlayerStats" }

ChecksFirst(c) ==
    IF c.op \in ById /\ c.id <= 0
    THEN c.err = InvalidId(c)
    ELSE IsErr(Validated(c)) => c.err = Wrap("validation failed: ", Validated(c))

C21_ChecksBeforeRepository ==
    last.op \notin (Reads \cup {"none"}) => ChecksFirst(last)

(* C22: a CreateGame whose request has no status stores and returns the   *)
(* game with status "scheduled", and after any step every stored game's   *)
(* status is one of scheduled, in_progress, completed, cancelled.         *)

CreatedGame(c) == CHOOSE g \in games' : g.id = c.ret[1].id

C22_GameStatus ==
    [][ /\ ( /\ Idle
             /\ last'.op = "CreateGame"
             /\ last'.err = NoErr
             /\ last'.req.status = <<>> )
              => ( /\ last'.ret[1].status = <<"s","c","h","e","d","u","l","e","d">>
                   /\ \E g \in games' : g.id = last'.ret[1].id
                   /\ CreatedGame(last').status = <<"s","c","h","e","d","u","l","e","d">> )
        /\ \A g \in games' : g.status \in AllowedStatuses
      ]_vars

(* a CreateGame without a status has stored its game as scheduled         *)
C22_Witness ==
    /\ last.op = "CreateGame"
    /\ last.err = NoErr
    /\ last.req.status = <<>>
    /\ \E g \in games :
          g.id = last.ret[1].id /\ g.status = <<"s","c","h","e","d","u","l","e","d">>

(* C23: between the roster scan of a CreatePlayer and its insert another  *)
(* request may insert.  An insert whose scan had passed is refused only   *)
(* when a stored player has the same team, first name, last name,         *)
(* position and jersey number; a stored player with the same team and     *)
(* jersey number but another name does not stop it, and the row is        *)
(* stored.  So two requests for one team and one jersey number whose      *)
(* scans both run before either insert both succeed.                      *)

SameIdentity(p, row) ==
    /\ p.team_id = row.team_id
    /\ p.first_name = row.first_name
    /\ p.last_name = row.last_name
    /\ p.position = row.position
    /\ NotNil(p.jersey_number)
    /\ p.jersey_number = row.jersey_number

Inserting(c, o) ==
    /\ inflight[c].op = o
    /\ inflight[c].pc = "checked"
    /\ inflight'[c].pc = "done"

C23_CreatePlayerRace ==
    [][ \A c \in Clients :
          Inserting(c, "CreatePlayer") =>
            LET row == Deref(inflight[c].row)
            IN  IF \E p \in players : SameIdentity(p, row)
                THEN IsErr(inflight'[c].err) /\ players' = players
                ELSE /\ inflight'[c].err = NoErr
                     /\ Deref(inflight'[c].row) \in players'
                     /\ players \subseteq players'
                     /\ SameIdentity(Deref(inflight'[c].row), row)
      ]_vars

(* both requests have succeeded and the team has two players with one     *)
(* jersey number                                                          *)
C23_Witness ==
    /\ \A c \in Clients :
          /\ inflight[c].op = "CreatePlayer"
          /\ inflight[c].pc = "done"
          /\ inflight[c].err = NoErr
    /\ \E p, q \in players :
          /\ p.id # q.id
          /\ p.team_id = q.team_id
          /\ NotNil(p.jersey_number)
          /\ p.jersey_number = q.jersey_number
          /\ p.first_name # q.first_name

(* C24: whatever the interleaving of CreatePlayerStats requests, no two   *)
(* stored stats rows have the same player_id and game_id; an insert that  *)
(* follows a passed pair probe succeeds when no row for the pair is       *)
(* stored and otherwise returns an error and leaves the table as it was.  *)

C24_StatsPairUniqueUnderRace ==
    [][ /\ \A x, y \in stats' :
              (x.player_id = y.player_id /\ x.game_id = y.game_id) => x = y
        /\ \A c \in Clients :
              Inserting(c, "CreatePlayerStats") =>
                LET row == Deref(inflight[c].row)
                IN  IF \E x \in stats : x.player_id = row.player_id
                                        /\ x.game_id = row.game_id
                    THEN IsErr(inflight'[c].err) /\ stats' = stats
                    ELSE /\ inflight'[c].err = NoErr
                         /\ stats' = stats \cup {Deref(inflight'[c].row)}
                         /\ Deref(inflight'[c].row).player_id = row.player_id
                         /\ Deref(inflight'[c].row).game_id = row.game_id
      ]_vars

(* both requests passed the pair probe; one insert succeeded, the other   *)
(* was refused by the UNIQUE constraint, and one row is stored            *)
C24_Witness ==
    /\ \A c \in Clients : inflight[c].op = "CreatePlayerStats" /\ inflight[c].pc = "done"
    /\ \E c, d \in Clients :
          /\ inflight[c].err = NoErr
          /\ inflight[d].err.msg =
                "UNIQUE constraint failed: player_stats.player_id, player_stats.game_id"
    /\ Cardinality(stats) = 1

(* C25: the write of a DeletePlayer or UpdatePlayer that follows a passed *)
(* existence probe or read finds its row or finds it gone.  If the row is *)
(* stored the write succeeds; if another request deleted it in between,   *)
(* the request returns the repository's not-found error (zero rows        *)
(* affected) and the table is left as it was: the row is not re-created.  *)
(* So of two deletes of one id whose probes both passed, the first        *)
(* succeeds and the second returns not found.                             *)

Gone(c, prefix) ==
    /\ inflight'[c].err =
          Wrap(prefix, Errorf("player with ID %d not found", <<inflight[c].id>>))
    /\ players' = players

C25_WriteAfterConcurrentDelete ==
    [][ \A c \in Clients :
          /\ Inserting(c, "DeletePlayer") =>
                IF \E p \in players : p.id = inflight[c].id
                THEN /\ inflight'[c].err = NoErr
                     /\ players' = {p \in players : p.id # inflight[c].id}
                ELSE Gone(c, "failed to delete player: ")
          /\ Inserting(c, "UpdatePlayer") =>
                IF \E p \in players : p.id = inflight[c].id
                THEN /\ inflight'[c].err = NoErr
                     /\ \E p \in players' : p.id = inflight[c].id
                ELSE Gone(c, "failed to update player: ")
      ]_vars

(* two deletes of one id: both probes passed, one has succeeded and the   *)
(* other has returned not found                                           *)
C25_Witness ==
    /\ \A c \in Clients : inflight[c].op = "DeletePlayer" /\ inflight[c].pc = "done"
    /\ \E c, d \in Clients :
          /\ inflight[c].id = inflight[d].id
          /\ inflight[c].err = NoErr
          /\ inflight[d].err =
                Wrap("failed to delete player: ",
                     Errorf("player with ID %d not found", <<inflight[d].id>>))

(* C26: a successful update, made with no other request in progress,      *)
(* changes one row of one table, and in that row only the fields present  *)
(* in the patch and updated_at: every field the patch leaves out keeps its *)
(* value, and so do the id, created_at, a player's team_id and a stats    *)
(* row's player_id and game_id.                                           *)

OnlyPatched(old, new, req) ==
    /\ \A f \in DOMAIN old \ {"updated_at", "counters"} :
          (f \notin DOMAIN req \/ IsNil(req[f])) => new[f] = old[f]
    /\ "counters" \in DOMAIN old =>
          \A k \in StatFields :
              IsNil(req.counters[k]) => new.counters[k] = old.counters[k]

OneRowChanged(before, after, c) ==
    /\ \E old \in before : old.id = c.id
    /\ \E new \in after : new.id = c.id
    /\ LET old == CHOOSE x \in before : x.id = c.id
           new == CHOOSE x \in after : x.id = c.id
       IN  /\ after \ {new} = before \ {old}
           /\ OnlyPatched(old, new, c.req)

C26_UpdateFrame ==
    [][ (Idle /\ last'.err = NoErr) =>
          /\ last'.op = "UpdateTeam" =>
                OneRowChanged(teams, teams', last') /\ UNCHANGED <<players, games, stats>>
          /\ last'.op = "UpdatePlayer" =>
                OneRowChanged(players, players', last') /\ UNCHANGED <<teams, games, stats>>
          /\ last'.op = "UpdateGame" =>
                OneRowChanged(games, games', last') /\ UNCHANGED <<teams, players, stats>>
          /\ last'.op = "UpdatePlayerStats" =>
                OneRowChanged(stats, stats', last') /\ UNCHANGED <<teams, players, games>>
      ]_vars

(* an UpdatePlayer has set the height and weight of a player who keeps    *)
(* the jersey number the patch left out                                   *)
C26_Witness ==
    /\ last.op = "UpdatePlayer"
    /\ last.err = NoErr
    /\ IsNil(last.req.jersey_number)
    /\ NotNil(last.req.height)
    /\ \E p \in players :
          /\ p.id = last.id
          /\ p.height = last.req.height
          /\ p.jersey_number = Some(7)

(* C27: the write of an UpdatePlayer leaves every field that its patch    *)
(* does not name as it is stored when the write is made, even when        *)
(* another update of the same player wrote after this one had read the    *)
(* row: of two interleaved updates with disjoint patches the row keeps    *)
(* both changes.                                                          *)

C27_DisjointUpdatesBothKept ==
    [][ \A c \in Clients :
          (Inserting(c, "UpdatePlayer") /\ inflight'[c].err = NoErr) =>
              LET old == CHOOSE p \in players : p.id = inflight[c].id
                  new == CHOOSE p \in players' : p.id = inflight[c].id
              IN  OnlyPatched(old, new, inflight[c].req)
      ]_vars

(* C28: CreatePlayerStats checks that the player is stored and not that   *)
(* the game is: a request that passes validation, whose player is stored, *)
(* for whose pair no row is stored and whose game_id names no stored game *)
(* succeeds, and its row is stored with that game_id.                     *)

C28_GameNotProbed ==
    [][ ( /\ Idle
          /\ last'.op = "CreatePlayerStats"
          /\ validateCreatePlayerStatsRequest(last'.req) = NoErr
          /\ \E p \in players : p.id = last'.req.player_id
          /\ ~\E x \in stats : /\ x.player_id = last'.req.player_id
                                /\ x.game_id = last'.req.game_id
          /\ ~\E g \in games : g.id = last'.req.game_id )
            => /\ last'.err = NoErr
               /\ \E x \in stats' \ stats :
                     /\ x.player_id = last'.req.player_id
                     /\ x.game_id = last'.req.game_id
      ]_vars

(* a stats row has been created for a game that is not stored             *)
C28_Witness ==
    /\ last.op = "CreatePlayerStats"
    /\ last.err = NoErr
    /\ last.req.game_id > 0
    /\ \E x \in stats : x.id = last.ret[1].id /\ x.game_id = last.req.game_id
    /\ ~\E g \in games : g.id = last.req.game_id

(* C29: a service call that returns an error leaves the four tables and   *)
(* the id counters exactly as they were before the call, whichever check  *)
(* rejected it: validation, an existence probe, the roster scan, the      *)
(* home-differs-from-away check, the pair probe or the repository.        *)

C29_ErrorLeavesStoreUnchanged ==
    [][ IsErr(last'.err) => UNCHANGED <<teams, players, games, stats, nextId>> ]_vars

(* an UpdateGame whose patch had been merged onto the copy of a stored    *)
(* game was rejected by the home-differs-from-away check                  *)
C29_Witness ==
    /\ last.op = "UpdateGame"
    /\ last.err = SameTeams
    /\ NotNil(last.req.home_team_id)
    /\ \E g \in games :
          /\ g.id = last.id
          /\ g.home_team_id # Deref(last.req.home_team_id)
          /\ g.away_team_id = Deref(last.req.home_team_id)

(* C30: in every reachable state and for every id, GetPlayer(id) returns  *)
(* a player exactly when the existence probe playerRepo.Exists(id) is     *)
(* true, also after the player's team has been deleted.                   *)

C30_PlayerReadAgreesWithExists ==
    \A id \in PlayerIds \ {0} :
        (GetPlayer(id).err = NoErr) <=> playerRepoExists(id)

============================================================================
